---- MODULE Spec2Model ----
(***************************************************************************)
(* Model of reo/validators.py: the tariff rate-structure validator         *)
(* (URDB_RateValidator) and the nested input validator                     *)
(* (ValidateNestedInput) with its seven passes.                            *)
(*                                                                         *)
(* Three state machines share this module.  SpecURDB steps through the     *)
(* validate_<field> handlers of URDB_RateValidator on one rate document.   *)
(* Spec steps through the seven passes of ValidateNestedInput, one object  *)
(* of the schema per step.  SpecKeys classifies one key with the key       *)
(* predicates of the walker.                                               *)
(***************************************************************************)
EXTENDS Integers, Sequences, FiniteSets, TLC

VARIABLES
    \* ---- URDB_RateValidator ----
    u_doc,        \* the keyword arguments of the constructor (the rate document)
    u_pos,        \* position of the `for key in dir(self)` loop of validate()
    u_errors,     \* self.errors
    u_warnings,   \* self.warnings
    u_raised,     \* TRUE once a handler raised out of the constructor
    u_returned    \* the fields whose validate_<field> handler has returned

u_vars == <<u_doc, u_pos, u_errors, u_warnings, u_raised, u_returned>>

VARIABLES
    \* ---- ValidateNestedInput ----
    input,              \* the document handed to ValidateNestedInput(input_dict)
    tree,               \* self.input_dict['Scenario'], by object name
    top_keys,           \* the keys of self.input_dict
    input_data_errors,  \* self.input_data_errors
    urdb_errors,        \* self.urdb_errors
    input_as_none,      \* self.input_as_none
    invalid_inputs,     \* self.invalid_inputs
    resampled_inputs,   \* self.resampled_inputs
    defaults_inserted,  \* self.defaults_inserted
    pass,               \* which recursively_check_input_dict call of __init__ runs (0: none yet, 8: returned)
    idx,                \* position of the walker in the objects it visits in this pass
    exc,                \* "" or the place where an exception left __init__
    calls,              \* the external collaborators called so far
    visited,            \* the calls of comparison functions so far: [f: function, o: object]
    run,                \* 1: first submission, 2: the normalized document resubmitted
    first,              \* tree and report at the end of the first run
    report              \* the reads of errors / warnings / messages: how many, how many of
                        \* errors or messages, and the 'input_errors' the last of those returned

p_vars == <<input, tree, top_keys, input_data_errors, urdb_errors, input_as_none, invalid_inputs,
            resampled_inputs, defaults_inserted, pass, idx, exc, calls, visited, run, first,
            report>>

VARIABLES
    \* ---- the key taxonomy of the walker ----
    template_k,   \* the key recursively_check_input_dict looks at, as its characters
    taxonomy      \* how the key was classified, and whether the walker recursed into it

k_vars == <<template_k, taxonomy>>
vars == <<u_vars, p_vars, k_vars>>

\* Nothing has been read from the report.
NoReport == [n |-> 0, e |-> 0, input_errors |-> <<>>]

(***************************************************************************)
(* Generic helpers                                                         *)
(***************************************************************************)
Min(S) == CHOOSE x \in S : \A y \in S : x <= y

RECURSIVE SortedSeq(_)
SortedSeq(S) == IF S = {} THEN <<>> ELSE <<Min(S)>> \o SortedSeq(S \ {Min(S)})

Range(s) == {s[i] : i \in DOMAIN s}

RECURSIVE Flatten(_)
Flatten(ss) == IF ss = <<>> THEN <<>> ELSE Head(ss) \o Flatten(Tail(ss))

Count(s, x) == Cardinality({i \in DOMAIN s : s[i] = x})

(***************************************************************************)
(* The key taxonomy: isSingularKey, isPluralKey, isAttribute               *)
(***************************************************************************)
MaxKeyLen == 3     \* characters per key

\* The characters keys are written with: letters in both cases and two
\* characters that have no case.
Chars == {"A", "S", "a", "s", "_", "1"}
\* str.upper() / str.lower() of one character
upper(c) == CASE c = "a" -> "A" [] c = "s" -> "S" [] OTHER -> c
lower(c) == CASE c = "A" -> "a" [] c = "S" -> "s" [] OTHER -> c

isSingularKey(k) == k[1] = upper(k[1]) /\ k[Len(k)] # "s"
isPluralKey(k) == k[1] = upper(k[1]) /\ k[Len(k)] = "s"
isAttribute(k) == k[1] = lower(k[1])

\* No key is under classification.
Unclassified == [done |-> FALSE, singular |-> FALSE, plural |-> FALSE,
                 attribute |-> FALSE, recursed |-> FALSE]
KIdle == template_k = <<>> /\ taxonomy = Unclassified

(***************************************************************************)
(* URDB_RateValidator                                                      *)
(***************************************************************************)
\* Bounds of the rate documents explored.
MaxTiers == 3      \* tiers per tier group
MaxGroups == 2     \* tier groups (periods) per rate structure
MaxPeriod == 2     \* largest period index written in a schedule

\* expected_counts of validCompleteHours: [12, 24] and [12]
MonthsPerYear == 12
HoursPerDay == 24

RateFields == {"coincidentratestructure", "demandratestructure",
               "energyratestructure", "flatdemandstructure"}
ScheduleFields == {"coincidentrateschedule", "demandweekdayschedule",
                   "demandweekendschedule", "energyweekdayschedule",
                   "energyweekendschedule", "flatdemandmonths"}
\* The order in which dir(self) lists the fields (alphabetical).
FieldOrder == <<"coincidentrateschedule", "coincidentratestructure",
                "demandratestructure", "demandweekdayschedule",
                "demandweekendschedule", "energyratestructure",
                "energyweekdayschedule", "energyweekendschedule",
                "flatdemandmonths", "flatdemandstructure">>
Fields == Range(FieldOrder)

\* A field of the document: st = "absent" (no such keyword), "none" (null) or
\* "val"; nested tells whether v[1] is itself a list (a 12x24 schedule).
Absent == [st |-> "absent", nested |-> FALSE, v |-> <<>>]
NoneField == [st |-> "none", nested |-> FALSE, v |-> <<>>]
RateVal(groups) == [st |-> "val", nested |-> TRUE, v |-> groups]
SchedVal(nested, s) == [st |-> "val", nested |-> nested, v |-> s]

hasattr(doc, f) == doc[f].st # "absent"

\* An entry of self.errors / self.warnings: the message kind and its arguments.
UErr(k, f, g, i, j) == [k |-> k, f |-> f, g |-> g, i |-> i, j |-> j]

\* dependencies (property): field -> the fields it requires
dependencies(name) ==
    CASE name = "demandweekdayschedule" -> <<"demandratestructure">>
      [] name = "demandweekendschedule" -> <<"demandratestructure">>
      [] name = "demandratestructure" -> <<"demandweekdayschedule", "demandweekendschedule">>
      [] name = "energyweekdayschedule" -> <<"energyratestructure">>
      [] name = "energyweekendschedule" -> <<"energyratestructure">>
      [] name = "energyratestructure" -> <<"energyweekdayschedule", "energyweekendschedule">>
      [] name = "flatdemandmonths" -> <<"flatdemandstructure">>
      [] name = "flatdemandstructure" -> <<"flatdemandmonths">>
      [] OTHER -> <<>>

\* validDependencies: one "Missing d a dependency of name" error per dependency
\* that is absent or None.
RECURSIVE DependencyErrors(_, _, _)
DependencyErrors(doc, name, deps) ==
    IF deps = <<>> THEN <<>>
    ELSE (IF doc[Head(deps)].st = "val" THEN <<>>
          ELSE <<UErr("missing_dependency", Head(deps), name, 0, 0)>>)
         \o DependencyErrors(doc, name, Tail(deps))

validDependencies(doc, name) == DependencyErrors(doc, name, dependencies(name))

\* validCompleteHours.recursive_search: a list at nesting level `level` must
\* hold expected_counts[level] entries; sub-lists are searched at level + 1.
CompleteHoursErrors(doc, schedule_name, expected_counts) ==
    LET f == doc[schedule_name]
        top == IF Len(f.v) # expected_counts[1]
               THEN <<UErr("incomplete", schedule_name, "", 0, 0)>> ELSE <<>>
        sub == IF f.nested
               THEN Flatten([ii \in DOMAIN f.v |->
                        IF Len(f.v[ii]) # expected_counts[2]
                        THEN <<UErr("incomplete", schedule_name, "", ii - 1, 1)>>
                        ELSE <<>>])
               ELSE <<>>
    IN IF f.st = "val" THEN top \o sub ELSE <<>>

\* validRate, the body of `for i, r in enumerate(getattr(self, rate))` for one
\* tier group r at (0-based) index i.
NumMaxTags(r) == Cardinality({ii \in DOMAIN r : r[ii].max})

\* Mutant of MissingMaxErrors: counts every tier, the open one included.
MissingMaxErrors_OffByOne(rate, i, r) ==
    LET num_missing_max_tags == Len(r) - NumMaxTags(r)
    IN IF Len(r) > 1 /\ num_missing_max_tags > 0
       THEN <<UErr("missing_max", rate, "", i, num_missing_max_tags)>>
       ELSE <<>>

MissingMaxErrors(rate, i, r) ==
    LET num_missing_max_tags == Len(r) - 1 - NumMaxTags(r)
    IN IF Len(r) > 1 /\ num_missing_max_tags > 0
       THEN <<UErr("missing_max", rate, "", i, num_missing_max_tags)>>
       ELSE <<>>

TierErrors(rate, i, r) ==
    Flatten([ii \in DOMAIN r |->
        IF ~r[ii].rate /\ ~r[ii].sell /\ ~r[ii].adj
        THEN <<UErr("missing_rate_attr", rate, "", i, ii - 1)>> ELSE <<>>])

GroupErrors(rate, i, r) ==
    (IF Len(r) = 0 THEN <<UErr("missing_rate_info", rate, "", i, 0)>> ELSE <<>>)
    \o TierErrors(rate, i, r) \o MissingMaxErrors(rate, i, r)

validRate(doc, rate) ==
    Flatten([g \in DOMAIN doc[rate].v |-> GroupErrors(rate, g - 1, doc[rate].v[g])])

\* validSchedule: the distinct period values of the (flattened) schedule that
\* are no index of the rate structure.
Periods(f) == IF f.nested THEN Range(Flatten(f.v)) ELSE Range(f.v)

PeriodOutOfRange(period, tierCount) == period > tierCount - 1 \/ period < 0

validSchedule(doc, schedules, rate) ==
    LET bad == {p \in Periods(doc[schedules]) : PeriodOutOfRange(p, Len(doc[rate].v))}
        seq == SortedSeq(bad)
    IN [p \in DOMAIN seq |-> UErr("no_rate", schedules, rate, seq[p], 0)]

\* The handlers raise (TypeError, IndexError) on a None field or an empty schedule.
RateRaises(doc, rate) == doc[rate].st = "none"
ScheduleRaises(doc, schedules, rate) ==
    \/ doc[schedules].st = "none"
    \/ doc[schedules].v = <<>>
    \/ doc[rate].st = "none" /\ Periods(doc[schedules]) # {}

\* validate_<rate structure>: validDependencies, then validRate.
\* Returns [errors, warnings, raised] to append.
RateHandler(doc, name) ==
    LET dep == validDependencies(doc, name)
    IN IF dep # <<>> THEN [errors |-> dep, warnings |-> <<>>, raised |-> FALSE]
       ELSE IF RateRaises(doc, name)
            THEN [errors |-> <<>>, warnings |-> <<>>, raised |-> TRUE]
            ELSE [errors |-> validRate(doc, name), warnings |-> <<>>, raised |-> FALSE]

\* validate_<schedule>: validCompleteHours (when complete is TRUE), then
\* validDependencies, then validSchedule against `rate`.
ScheduleHandler(doc, name, rate, complete, expected_counts) ==
    LET hrs == IF complete THEN CompleteHoursErrors(doc, name, expected_counts) ELSE <<>>
        dep == validDependencies(doc, name)
    IN IF dep # <<>> THEN [errors |-> hrs \o dep, warnings |-> <<>>, raised |-> FALSE]
       ELSE IF ScheduleRaises(doc, name, rate)
            THEN [errors |-> hrs, warnings |-> <<>>, raised |-> TRUE]
            ELSE IF hasattr(doc, rate)
                 THEN [errors |-> hrs \o validSchedule(doc, name, rate),
                       warnings |-> <<>>, raised |-> FALSE]
                 ELSE [errors |-> hrs,
                       warnings |-> <<UErr("no_rate_to_check", rate, name, 0, 0)>>,
                       raised |-> FALSE]

\* The rate structure each validate_<schedule> handler passes to validSchedule.
ScheduleRate(name) ==
    CASE name = "demandweekdayschedule" -> "demandratestructure"
      [] name = "demandweekendschedule" -> "demandratestructure"
      [] name = "energyweekdayschedule" -> "energyratestructure"
      [] name = "energyweekendschedule" -> "energyratestructure"
      [] name = "flatdemandmonths" -> "flatdemandstructure"
      [] name = "coincidentrateschedule" -> "flatdemandstructure"

Handler(doc, name) ==
    IF name \in RateFields THEN RateHandler(doc, name)
    ELSE IF name = "flatdemandmonths"
         THEN ScheduleHandler(doc, name, ScheduleRate(name), TRUE, <<MonthsPerYear>>)
    ELSE IF name = "coincidentrateschedule"
         THEN ScheduleHandler(doc, name, ScheduleRate(name), FALSE, <<>>)
    ELSE ScheduleHandler(doc, name, ScheduleRate(name), TRUE, <<MonthsPerYear, HoursPerDay>>)

\* hard_problem_labels: the labels listed in reo/hard_problems.csv
hard_problem_labels == {"hard_problem_label"}

HardProblemErrors(doc) ==
    IF doc.label \in hard_problem_labels
    THEN <<UErr("hard_problem", doc.label, "", 0, 0)>> ELSE <<>>

\* ---- the rate documents explored ----
Tier(rate, sell, adj, max) == [rate |-> rate, sell |-> sell, adj |-> adj, max |-> max]
TierRateMax == Tier(TRUE, FALSE, FALSE, TRUE)
TierRate == Tier(TRUE, FALSE, FALSE, FALSE)
TierSellMax == Tier(FALSE, TRUE, FALSE, TRUE)
TierAdj == Tier(FALSE, FALSE, TRUE, FALSE)
TierMaxOnly == Tier(FALSE, FALSE, FALSE, TRUE)
TierEmpty == Tier(FALSE, FALSE, FALSE, FALSE)

\* Tier groups: every mix of bounded and open tiers up to MaxTiers tiers, and
\* some groups whose tiers carry sell / adj / no price.
GroupShapes ==
    UNION {[1..n -> {TierRateMax, TierRate}] : n \in 0..MaxTiers}
    \cup {<<TierSellMax, TierAdj>>, <<TierMaxOnly, TierRate>>, <<TierEmpty>>}

PlainGroup == <<TierRate>>

\* Rate structures: 0..MaxGroups-1 plain groups followed by one group of any shape.
RateStructures ==
    {[i \in 1..n |-> IF i < n THEN PlainGroup ELSE g] :
        n \in 1..MaxGroups, g \in GroupShapes}
PlainRates == {[i \in 1..n |-> PlainGroup] : n \in 1..MaxGroups}

\* Schedules: period p everywhere except period q in the first entry.
DailySchedule(p, q) ==
    [m \in 1..MonthsPerYear |-> [h \in 1..HoursPerDay |-> IF m = 1 /\ h = 1 THEN q ELSE p]]
MonthlySchedule(p, q) == [m \in 1..MonthsPerYear |-> IF m = 1 THEN q ELSE p]
PeriodPairs == {pq \in (-1..MaxPeriod) \X (-1..MaxPeriod) : pq[1] <= pq[2]}

DailySchedules ==
    {SchedVal(TRUE, DailySchedule(pq[1], pq[2])) : pq \in PeriodPairs}
    \cup {SchedVal(TRUE, SubSeq(DailySchedule(0, 0), 1, MonthsPerYear - 1)),
          SchedVal(TRUE, [m \in 1..MonthsPerYear |->
                            IF m = 2 THEN <<0>> ELSE DailySchedule(0, 0)[m]]),
          SchedVal(FALSE, <<>>)}
MonthlySchedules ==
    {SchedVal(FALSE, MonthlySchedule(pq[1], pq[2])) : pq \in PeriodPairs}
    \cup {SchedVal(FALSE, SubSeq(MonthlySchedule(0, 0), 1, MonthsPerYear - 1)),
          SchedVal(FALSE, <<>>)}
FewDailySchedules ==
    {Absent, NoneField, SchedVal(TRUE, DailySchedule(0, 0)),
     SchedVal(TRUE, DailySchedule(0, MaxPeriod))}

EmptyDoc == [f \in Fields |-> Absent]
With(doc, f, val) == [doc EXCEPT ![f] = val]

\* The documents populate one family of fields at a time: the families only
\* interact through flatdemandstructure, which the coincident family includes.
AnyRate == {Absent, NoneField} \cup {RateVal(x) : x \in RateStructures}
GivenRate == {Absent} \cup {RateVal(x) : x \in RateStructures}
EnergyDoc(r, s, e) ==
    With(With(With(EmptyDoc, "energyratestructure", r), "energyweekdayschedule", s),
         "energyweekendschedule", e)
DemandDoc(r, e, s) ==
    With(With(With(EmptyDoc, "demandratestructure", r), "demandweekdayschedule", e),
         "demandweekendschedule", s)
FlatDoc(r, s) == With(With(EmptyDoc, "flatdemandstructure", r), "flatdemandmonths", s)
CoincidentDoc(r, s, fr, fm) ==
    With(With(With(With(EmptyDoc, "coincidentratestructure", r), "coincidentrateschedule", s),
              "flatdemandstructure", fr), "flatdemandmonths", fm)

\* u_doc is one of the rate documents explored, with label l.
RateDocLabelled(l) ==
    \/ \E r \in AnyRate, s \in {Absent} \cup DailySchedules, e \in FewDailySchedules :
          u_doc = [label |-> l, f |-> EnergyDoc(r, s, e)]
    \/ \E r \in GivenRate, e \in FewDailySchedules, s \in {Absent} \cup DailySchedules :
          u_doc = [label |-> l, f |-> DemandDoc(r, e, s)]
    \/ \E r \in AnyRate, s \in {Absent, NoneField} \cup MonthlySchedules :
          u_doc = [label |-> l, f |-> FlatDoc(r, s)]
    \/ \E r \in GivenRate, s \in {Absent} \cup DailySchedules,
          fr \in {Absent, NoneField} \cup {RateVal(x) : x \in PlainRates},
          fm \in {Absent, SchedVal(FALSE, MonthlySchedule(0, 0))} :
          u_doc = [label |-> l, f |-> CoincidentDoc(r, s, fr, fm)]

\* ---- the state machine of URDB_RateValidator.__init__ ----
\* Position of the first field at or after index `from` that the document has
\* (dir(self) lists only the attributes that were set), or past the end.
NextPresent(doc, from) ==
    LET S == {i \in from..Len(FieldOrder) : hasattr(doc, FieldOrder[i])}
    IN IF S = {} THEN Len(FieldOrder) + 1 ELSE Min(S)

\* ValidateNestedInput is not running.
PIdle ==
    /\ input = <<>> /\ tree = <<>> /\ top_keys = {}
    /\ input_data_errors = <<>> /\ urdb_errors = <<>> /\ input_as_none = <<>>
    /\ invalid_inputs = <<>> /\ resampled_inputs = <<>> /\ defaults_inserted = <<>>
    /\ pass = 8 /\ idx = 1 /\ exc = "" /\ calls = <<>> /\ visited = <<>> /\ run = 2 /\ first = <<>>
    /\ report = NoReport

UDone == u_pos = Len(FieldOrder) + 1 \/ u_raised

UInit ==
    /\ \E l \in {"custom"} \cup hard_problem_labels : RateDocLabelled(l)
    /\ u_pos = 0
    /\ u_errors = <<>>
    /\ u_warnings = <<>>
    /\ u_raised = FALSE
    /\ u_returned = {}
    /\ PIdle
    /\ KIdle

\* validate(): the hard-problem check, then the loop over dir(self).
validate ==
    /\ u_pos = 0
    /\ u_errors' = u_errors \o HardProblemErrors(u_doc)
    /\ u_pos' = NextPresent(u_doc.f, 1)
    /\ UNCHANGED <<u_doc, u_warnings, u_raised, u_returned>>
    /\ UNCHANGED p_vars
    /\ UNCHANGED k_vars

\* One pass of the loop body `getattr(self, 'validate_' + key)()` for key = name.
AtField(name) ==
    /\ u_pos \in DOMAIN FieldOrder
    /\ ~u_raised
    /\ FieldOrder[u_pos] = name

RunHandler(name) ==
    /\ LET r == Handler(u_doc.f, name)
       IN /\ u_errors' = u_errors \o r.errors
          /\ u_warnings' = u_warnings \o r.warnings
          /\ u_raised' = r.raised
          /\ u_returned' = IF r.raised THEN u_returned ELSE u_returned \cup {name}
    /\ u_pos' = NextPresent(u_doc.f, u_pos + 1)
    /\ UNCHANGED u_doc
    /\ UNCHANGED p_vars
    /\ UNCHANGED k_vars

validate_coincidentrateschedule ==
    /\ AtField("coincidentrateschedule")
    /\ RunHandler("coincidentrateschedule")

validate_coincidentratestructure ==
    /\ AtField("coincidentratestructure")
    /\ RunHandler("coincidentratestructure")

validate_demandratestructure ==
    /\ AtField("demandratestructure")
    /\ RunHandler("demandratestructure")

validate_demandweekdayschedule ==
    /\ AtField("demandweekdayschedule")
    /\ RunHandler("demandweekdayschedule")

validate_demandweekendschedule ==
    /\ AtField("demandweekendschedule")
    /\ RunHandler("demandweekendschedule")

validate_energyratestructure ==
    /\ AtField("energyratestructure")
    /\ RunHandler("energyratestructure")

validate_energyweekdayschedule ==
    /\ AtField("energyweekdayschedule")
    /\ RunHandler("energyweekdayschedule")

validate_energyweekendschedule ==
    /\ AtField("energyweekendschedule")
    /\ RunHandler("energyweekendschedule")

validate_flatdemandmonths ==
    /\ AtField("flatdemandmonths")
    /\ RunHandler("flatdemandmonths")

validate_flatdemandstructure ==
    /\ AtField("flatdemandstructure")
    /\ RunHandler("flatdemandstructure")

UNext ==
    \/ validate
    \/ validate_coincidentrateschedule
    \/ validate_coincidentratestructure
    \/ validate_demandratestructure
    \/ validate_demandweekdayschedule
    \/ validate_demandweekendschedule
    \/ validate_energyratestructure
    \/ validate_energyweekdayschedule
    \/ validate_energyweekendschedule
    \/ validate_flatdemandmonths
    \/ validate_flatdemandstructure

SpecURDB == UInit /\ [][UNext]_vars

(***************************************************************************)
(* Claims about URDB_RateValidator (checked under SpecURDB)                *)
(***************************************************************************)
\* The rate structure a schedule indexes, by the naming of the fields.
PairedRate(name) ==
    CASE name \in {"demandweekdayschedule", "demandweekendschedule"} -> "demandratestructure"
      [] name \in {"energyweekdayschedule", "energyweekendschedule"} -> "energyratestructure"
      [] name = "flatdemandmonths" -> "flatdemandstructure"
      [] name = "coincidentrateschedule" -> "coincidentratestructure"

\* Errors of validSchedule that cite period p of schedule s.
NoRateErrors(s, p) ==
    Cardinality({i \in DOMAIN u_errors :
        u_errors[i].k = "no_rate" /\ u_errors[i].f = s /\ u_errors[i].i = p})

\* The schedule's handler has returned, its dependencies were satisfied and the
\* rate structure it is paired with exists.
ScheduleChecked(s) ==
    /\ s \in u_returned
    /\ u_doc.f[s].st = "val"
    /\ validDependencies(u_doc.f, s) = <<>>
    /\ u_doc.f[PairedRate(s)].st = "val"

\* C7: for every schedule field whose dependencies are satisfied, each distinct
\* period value outside [0, tierCount-1] of its paired rate structure produces
\* exactly one error citing that value, and values inside the range produce none.
C7_ScheduleRangeErrors ==
    \A s \in ScheduleFields : ScheduleChecked(s) =>
        \A p \in -1..(MaxPeriod + 1) :
            NoRateErrors(s, p) =
                IF /\ p \in Periods(u_doc.f[s])
                   /\ (p < 0 \/ p > Len(u_doc.f[PairedRate(s)].v) - 1)
                THEN 1 ELSE 0

\* Errors of validRate on group i of a rate structure: "Missing 'max' tag for j tiers".
MissingMaxCited(rate, i) ==
    {u_errors[e].j : e \in {x \in DOMAIN u_errors :
        u_errors[x].k = "missing_max" /\ u_errors[x].f = rate /\ u_errors[x].i = i}}
MissingMaxCount(rate, i) ==
    Cardinality({x \in DOMAIN u_errors :
        u_errors[x].k = "missing_max" /\ u_errors[x].f = rate /\ u_errors[x].i = i})

\* validRate has run on the rate structure (its dependencies were satisfied).
RateChecked(rate) ==
    /\ rate \in u_returned
    /\ u_doc.f[rate].st = "val"
    /\ validDependencies(u_doc.f, rate) = <<>>

\* C8 as stated: a tier group of size > 1 is accepted only if exactly
\* groupSize-1 of its tiers carry a max bound; any other count, fewer or more,
\* produces an error for that group.
C8_ExactlyOneOpenTier ==
    \A rate \in RateFields : RateChecked(rate) =>
        \A g \in DOMAIN u_doc.f[rate].v :
            LET r == u_doc.f[rate].v[g]
            IN Len(r) > 1 =>
                 ((MissingMaxCount(rate, g - 1) = 0) <=> (NumMaxTags(r) = Len(r) - 1))

\* C8 amended: a tier group of size > 1 with fewer than groupSize-1 max-bearing
\* tiers produces exactly one error citing the shortfall groupSize-1-count; a
\* group with groupSize-1 or more max-bearing tiers, or of size <= 1, produces none.
C8_MissingMaxTags ==
    \A rate \in RateFields : RateChecked(rate) =>
        \A g \in DOMAIN u_doc.f[rate].v :
            LET r == u_doc.f[rate].v[g]
                shortfall == Len(r) - 1 - NumMaxTags(r)
            IN IF Len(r) > 1 /\ shortfall > 0
               THEN MissingMaxCount(rate, g - 1) = 1 /\ MissingMaxCited(rate, g - 1) = {shortfall}
               ELSE MissingMaxCount(rate, g - 1) = 0

\* Witness of C8: validRate has run on a group of two tiers without max
\* ("Missing 'max' tag for 1 tiers") and on a group whose tiers all carry max.
C8_Witness ==
    \E rate \in RateFields : RateChecked(rate) /\
        \E g \in DOMAIN u_doc.f[rate].v :
            /\ u_doc.f[rate].v[g] = <<TierRate, TierRate>>
            /\ MissingMaxCited(rate, g - 1) = {1}

(***************************************************************************)
(* ValidateNestedInput: values, schema and document tree                   *)
(***************************************************************************)
\* Bounds of the documents explored.
HoursPerYear == 2   \* stands for the 8760 hourly samples of a series (17520 and 35040 scale with it)
MaxEdits == 2       \* number of edits applied to the base document

\* ---- values of the JSON document ----
\* t: "absent" (no such key), "none" (null), "num", "numstr" (a string that
\* parses as the number n), "str", "bool" (n = 1 / 0), "list" (elements l;
\* s = "str": also holds a non-numeric string, s = "null": also holds a null / NaN),
\* "dict" (n: index of the rate document in UrdbDocs).
Val(t, n, s, l) == [t |-> t, n |-> n, s |-> s, l |-> l]
AbsentV == Val("absent", 0, "", <<>>)
NoneV == Val("none", 0, "", <<>>)
Num(n) == Val("num", n, "", <<>>)
NumStr(n) == Val("numstr", n, "", <<>>)
Str(s) == Val("str", 0, s, <<>>)
Bool(b) == Val("bool", IF b THEN 1 ELSE 0, "", <<>>)
List(l) == Val("list", 0, "", l)
BadList(l, flaw) == Val("list", 0, flaw, l)
Dict(n) == Val("dict", n, "", <<>>)

IsNone(v) == v.t \in {"absent", "none"}         \* d.get(k) is None
Truthy(v) ==
    CASE v.t \in {"absent", "none"} -> FALSE
      [] v.t \in {"num", "bool"} -> v.n # 0
      [] v.t = "list" -> v.l # <<>> \/ v.s # ""
      [] v.t = "str" -> v.s # ""
      [] OTHER -> TRUE

\* ---- nested_input_definitions (reo/nested_inputs.py) ----
\* The objects in the order the walker meets them in the schema.
ObjOrder == <<"Scenario", "Site", "LoadProfile", "ElectricTariff", "Wind", "PV", "Generator">>
Objects == Range(ObjOrder)
Parent(o) == IF o = "Scenario" THEN "" ELSE IF o = "Site" THEN "Scenario" ELSE "Site"
Children(o) ==
    CASE o = "Scenario" -> <<"Site">>
      [] o = "Site" -> <<"LoadProfile", "ElectricTariff", "Wind", "PV", "Generator">>
      [] OTHER -> <<>>
\* object_name_path of an object
Path(o) ==
    CASE o = "Scenario" -> <<"Scenario">>
      [] o = "Site" -> <<"Scenario", "Site">>
      [] OTHER -> <<"Scenario", "Site", o>>

load_profile_possible_sets ==
    << <<"loads_kw">>, <<"annual_kwh", "doe_reference_name">>, <<"doe_reference_name">> >>
electric_tariff_possible_sets ==
    << <<"urdb_response">>,
       <<"blended_monthly_demand_charges_us_dollars_per_kw",
         "blended_monthly_rates_us_dollars_per_kwh">>,
       <<"urdb_label">>,
       <<"urdb_utility_name", "urdb_rate_name">> >>

\* An attribute definition.  type "union" is ['float', 'list_of_float'];
\* default "Site latitude" is a path from the Scenario object.
Def(type) ==
    [type |-> type, hasMin |-> FALSE, min |-> 0, hasMax |-> FALSE, max |-> 0,
     restrict_to |-> {}, required |-> FALSE, hasDefault |-> FALSE, default |-> NoneV,
     pathDefault |-> <<>>, depends_on |-> <<>>, hasReplacements |-> FALSE,
     replacement_sets |-> <<>>]
WithMin(d, m) == [d EXCEPT !.hasMin = TRUE, !.min = m]
WithMax(d, m) == [d EXCEPT !.hasMax = TRUE, !.max = m]
WithDefault(d, v) == [d EXCEPT !.hasDefault = TRUE, !.default = v]
WithSets(d, sets, deps) ==
    [d EXCEPT !.hasReplacements = TRUE, !.replacement_sets = sets, !.depends_on = deps]

\* The declared max of the array attribute that has both bounds (min is 0).
ArrayMax == 8

\* The attributes of each object, in schema order.
SchemaAttrs(o) ==
    CASE o = "Scenario" -> <<"time_steps_per_hour">>
      [] o = "Site" -> <<"latitude", "site_series_kw">>
      [] o = "LoadProfile" ->
            <<"doe_reference_name", "annual_kwh", "year", "loads_kw", "loads_kw_is_net",
              "critical_loads_kw", "outage_start_hour", "outage_end_hour">>
      [] o = "ElectricTariff" ->
            <<"urdb_utility_name", "urdb_rate_name", "add_blended_rates_to_urdb_rate",
              "blended_monthly_rates_us_dollars_per_kwh",
              "blended_monthly_demand_charges_us_dollars_per_kw",
              "wholesale_rate_us_dollars_per_kwh", "urdb_response", "urdb_label">>
      [] o = "Wind" ->
            <<"size_class", "wind_meters_per_sec", "wind_direction_degrees",
              "temperature_celsius", "pressure_atmospheres", "max_kw">>
      [] o = "PV" -> <<"tilt", "prod_factor_series_kw">>
      [] o = "Generator" ->
            <<"existing_kw", "min_kw", "max_kw", "fuel_slope_gal_per_kwh",
              "fuel_intercept_gal_per_hr">>

AttrDef(o, a) ==
    CASE a = "time_steps_per_hour" ->      \* required, with a declared default
            [WithDefault(Def("int"), Num(1)) EXCEPT !.restrict_to = {1, 2, 4},
                                                     !.required = TRUE]
      [] a = "latitude" ->
            [WithMax(WithMin(Def("float"), -90), 90) EXCEPT !.required = TRUE]
      \* a scalar-or-series attribute of an object that is no child of Site
      [] a = "site_series_kw" -> WithMin(Def("union"), 0)
      [] a = "doe_reference_name" -> WithSets(Def("str"), load_profile_possible_sets, <<>>)
      [] a = "annual_kwh" ->
            WithSets(WithMin(Def("float"), 1), load_profile_possible_sets,
                     <<"doe_reference_name">>)
      [] a = "year" -> WithDefault(WithMax(WithMin(Def("int"), 1), 9999), Num(2018))
      [] a = "loads_kw" -> WithSets(Def("list_of_float"), load_profile_possible_sets, <<>>)
      [] a = "loads_kw_is_net" -> WithDefault(Def("bool"), Bool(TRUE))
      [] a = "critical_loads_kw" -> Def("list_of_float")
      [] a \in {"outage_start_hour", "outage_end_hour"} ->
            WithMax(WithMin(Def("int"), 0), 8759)
      [] a = "urdb_utility_name" ->
            WithSets(Def("str"), electric_tariff_possible_sets, <<"urdb_rate_name">>)
      [] a = "urdb_rate_name" ->
            WithSets(Def("str"), electric_tariff_possible_sets, <<"urdb_utility_name">>)
      [] a = "add_blended_rates_to_urdb_rate" -> WithDefault(Def("bool"), Bool(FALSE))
      [] a = "blended_monthly_rates_us_dollars_per_kwh" ->
            WithSets(Def("list_of_float"), electric_tariff_possible_sets,
                     <<"blended_monthly_demand_charges_us_dollars_per_kw">>)
      [] a = "blended_monthly_demand_charges_us_dollars_per_kw" ->
            WithSets(Def("list_of_float"), electric_tariff_possible_sets,
                     <<"blended_monthly_rates_us_dollars_per_kwh">>)
      [] a = "wholesale_rate_us_dollars_per_kwh" ->
            WithDefault(WithMin(Def("union"), 0), Num(0))
      [] a = "urdb_response" -> WithSets(Def("dict"), electric_tariff_possible_sets, <<>>)
      [] a = "urdb_label" -> WithSets(Def("str"), electric_tariff_possible_sets, <<>>)
      [] a = "size_class" -> Def("str")
      [] a \in {"wind_meters_per_sec", "wind_direction_degrees", "temperature_celsius",
                "pressure_atmospheres"} -> Def("list_of_float")
      [] a = "tilt" ->
            [WithMax(WithMin(Def("float"), 0), 90) EXCEPT
                !.hasDefault = TRUE, !.pathDefault = <<"Site", "latitude">>]
      [] a = "prod_factor_series_kw" -> WithMax(WithMin(Def("list_of_float"), 0), ArrayMax)
      [] a \in {"fuel_slope_gal_per_kwh", "fuel_intercept_gal_per_hr"} ->
            WithDefault(WithMax(WithMin(Def("float"), 0), 10), Num(0))
      [] a \in {"existing_kw", "min_kw", "max_kw"} ->
            WithDefault(WithMax(WithMin(Def("float"), 0), 1000000000), Num(0))

\* A key the schema does not know (an attribute: it starts in lower case).
UnknownKey == "bogus_key"
\* A key the schema does not know that starts with a capital letter; the
\* documents explored give it an empty dictionary as value.
UnknownObjectKey == "Bogus"
\* The keys a document may hold at an object: the schema's and the unknown ones.
Keys(o) == Range(SchemaAttrs(o)) \cup {UnknownKey, UnknownObjectKey}
\* dict order of the keys of an object of the document: the schema's order,
\* the unknown keys last.
KeyOrder(o) == SchemaAttrs(o) \o <<UnknownKey, UnknownObjectKey>>

\* ---- the document tree ----
\* tree[o].st: "absent" (no such key in the parent), "null", or "dict";
\* tree[o].a[k]: the value of key k of the object.
NoObject(o) == [st |-> "absent", a |-> [k \in Keys(o) |-> AbsentV]]
NullObject(o) == [st |-> "null", a |-> [k \in Keys(o) |-> AbsentV]]
NewObject(o) == [st |-> "dict", a |-> [k \in Keys(o) |-> AbsentV]]

Get(t, o, k) == t[o].a[k]                          \* dictionary.get(k)
\* update_attribute_value / delete_attribute on an object that exists
update_attribute_value(t, o, attribute, value) == [t EXCEPT ![o].a[attribute] = value]
delete_attribute(t, o, key) == [t EXCEPT ![o].a[key] = AbsentV]
\* update_attribute_value(object_name_path[:-1], object_name_path[-1], {})
InsertObject(t, o) == [t EXCEPT ![o] = NewObject(o)]

\* The keys present at an object, in dict order.
PresentKeys(t, o) == SelectSeq(KeyOrder(o), LAMBDA k : t[o].a[k].t # "absent")

\* ---- the report and the state a pass works on ----
\* An entry of input_data_errors: the message kind k, the object path o and
\* attribute a it names, a number n it cites, and the text m of a composed message.
PErr(k, o, a, n, m) == [k |-> k, o |-> o, a |-> a, n |-> n, m |-> m]
\* An entry of a warning list: [arg, path].
Warn(arg, path) == [arg |-> arg, path |-> path]
\* An entry of urdb_errors: a message string (k), or the list of the validator's
\* errors appended as one entry (k = "list").
UrdbEntry(k, errs) == [k |-> k, errs |-> errs]

\* object_name_string: '>'.join(object_name_path)
RECURSIVE Join(_, _)
Join(sep, names) ==
    IF names = <<>> THEN ""
    ELSE IF Len(names) = 1 THEN names[1]
    ELSE names[1] \o sep \o Join(sep, Tail(names))
object_name_string(o) == Join(">", Path(o))

\* The fields of self that the passes read and write.
State == [tree |-> tree, errs |-> input_data_errors, urdb |-> urdb_errors,
          none |-> input_as_none, inv |-> invalid_inputs, res |-> resampled_inputs,
          defs |-> defaults_inserted, exc |-> exc, calls |-> calls]
AddErr(S, e) == [S EXCEPT !.errs = Append(@, e)]
Raise(S, what) == [S EXCEPT !.exc = what]

\* Mutant of isValidOf: only input_data_errors is looked at.
isValidOf_InputErrorsOnly(errs, urdb) == ~(errs # <<>>)

\* isValid (property)
isValidOf(errs, urdb) == ~(errs # <<>> \/ urdb # <<>>)
isValid == isValidOf(input_data_errors, urdb_errors)

\* ---- eval(type)(value): the conversions of convert_data_types ----
\* Each returns [ok, v]: whether the call returns, and the converted value.
Ok(v) == [ok |-> TRUE, v |-> v]
Fail == [ok |-> FALSE, v |-> NoneV]

ToFloat(v) ==
    IF v.t \in {"num", "numstr", "bool"} THEN Ok(Num(v.n)) ELSE Fail
ToInt(v) == ToFloat(v)
ToStr(v) ==
    CASE v.t \in {"str", "numstr"} -> Ok(v)
      [] v.t = "num" -> Ok(NumStr(v.n))
      [] v.t = "bool" -> Ok(Str(IF v.n = 1 THEN "True" ELSE "False"))
      [] v.t = "none" -> Ok(Str("None"))
      [] v.t = "list" -> Ok(Str("[...]"))
      [] OTHER -> Ok(Str("{...}"))
ToBool(v) == Ok(Bool(Truthy(v)))
ToDict(v) ==
    IF v.t = "dict" \/ (v.t = "list" /\ v.l = <<>> /\ v.s = "") THEN Ok(v) ELSE Fail
\* list_of_float: [float(i) for i in input]
list_of_float(v) ==
    CASE v.t = "list" /\ v.s = "" -> Ok(List(v.l))
      [] v.t = "numstr" /\ v.n \in 0..9 -> Ok(List(<<v.n>>))
      [] v.t = "str" /\ v.s = "" -> Ok(List(<<>>))
      [] OTHER -> Fail

Convert(type, v) ==
    CASE type = "float" -> ToFloat(v)
      [] type = "int" -> ToInt(v)
      [] type = "str" -> ToStr(v)
      [] type = "bool" -> ToBool(v)
      [] type = "dict" -> ToDict(v)
      [] type = "list_of_float" -> list_of_float(v)

\* value == k for a Python number k (True == 1, False == 0)
NumEq(v, k) == v.t \in {"num", "bool"} /\ v.n = k

\* ---- validate_8760 ----
RECURSIVE Sum(_)
Sum(l) == IF l = <<>> THEN 0 ELSE Head(l) + Sum(Tail(l))

\* Mutant of BlockMean: each block is represented by its first sample.
BlockMean_FirstSample(l, k) == [i \in 1..(Len(l) \div k) |-> l[(i - 1) * k + 1]]

\* series.resample(...).mean(): the mean of each block of k consecutive samples
BlockMean(l, k) ==
    [i \in 1..(Len(l) \div k) |-> Sum(SubSeq(l, (i - 1) * k + 1, i * k)) \div k]
\* Mutant of Replicate: the series is stored as it was given.
Replicate_Once(l, k) == l

\* [x for x in attr for _ in range(k)]
Replicate(l, k) == [i \in 1..(Len(l) * k) |-> l[((i - 1) \div k) + 1]]

length_list == {HoursPerYear, 2 * HoursPerYear, 4 * HoursPerYear}
wholesale_rate_names ==
    {"wholesale_rate_us_dollars_per_kwh", "wholesale_rate_above_site_load_us_dollars_per_kwh"}

\* len(attr): defined for lists and strings only
HasLen(v) == v.t \in {"list", "str", "numstr", "dict"}
LenOf(v) ==
    CASE v.t = "list" -> Len(v.l) + (IF v.s = "" THEN 0 ELSE 1)
      [] v.t = "str" -> Len(v.s)
      [] v.t = "numstr" -> 1
      [] OTHER -> 0

InvalidLength(attr_name) == PErr("invalid_length", "", attr_name, 0, "")

ResolutionName(stepsPerHour) ==
    CASE stepsPerHour = 1 -> "hourly"
      [] stepsPerHour = 2 -> "30 minute"
      [] OTHER -> "15 minute"
DownsampledMsg(attr_name, from, to) ==
    "Downsampled " \o attr_name \o " from " \o ResolutionName(from) \o " resolution to "
    \o ResolutionName(to) \o " resolution to match time_steps_per_hour via average."
UpsampledMsg(attr_name, from, to) ==
    "Upsampled " \o attr_name \o " from " \o ResolutionName(from) \o " resolution to "
    \o ResolutionName(to) \o " resolution to match time_steps_per_hour via forward-fill."

\* self.update_attribute_value(["Scenario", "Site", obj_name], attr_name, value)
\* together with the resampled_inputs record; a series that holds something
\* that is no number cannot be averaged (pandas raises).
StoreResampled(S, attr, obj_name, attr_name, msg, value) ==
    IF attr.t # "list" \/ attr.s # "" THEN Raise(S, "validate_8760:resample")
    ELSE IF Parent(obj_name) # "Site" THEN Raise(S, "validate_8760:KeyError")
    ELSE [S EXCEPT !.res = Append(@, Warn(msg, <<obj_name>>)),
                   !.tree = update_attribute_value(@, obj_name, attr_name, List(value))]

\* The branch `if time_steps_per_hour != 1` (lines 1067-1093).
validate_8760_SubHourly(S, attr, obj_name, attr_name, time_steps_per_hour) ==
    LET n == LenOf(attr)
        ratio == n \div HoursPerYear
    IN IF n \notin length_list THEN AddErr(S, InvalidLength(attr_name))
       ELSE IF attr_name \notin wholesale_rate_names THEN S
       ELSE IF NumEq(time_steps_per_hour, ratio) THEN S
       ELSE IF NumEq(time_steps_per_hour, 2) /\ ratio = 4
            THEN StoreResampled(S, attr, obj_name, attr_name,
                                DownsampledMsg(attr_name, 4, 2), BlockMean(attr.l, 2))
       ELSE IF NumEq(time_steps_per_hour, 4) /\ ratio = 2
            THEN StoreResampled(S, attr, obj_name, attr_name,
                                UpsampledMsg(attr_name, 2, 4), Replicate(attr.l, 2))
       ELSE IF NumEq(time_steps_per_hour, 4) /\ ratio = 1
            THEN StoreResampled(S, attr, obj_name, attr_name,
                                UpsampledMsg(attr_name, 1, 4), Replicate(attr.l, 4))
       ELSE StoreResampled(S, attr, obj_name, attr_name,
                           UpsampledMsg(attr_name, 1, 2), Replicate(attr.l, 2))

\* The branches for time_steps_per_hour == 1 (lines 1095-1108).
validate_8760_Hourly(S, attr, obj_name, attr_name) ==
    LET n == LenOf(attr)
    IN IF n = HoursPerYear THEN S
       ELSE IF n \in {2 * HoursPerYear, 4 * HoursPerYear}
            THEN StoreResampled(S, attr, obj_name, attr_name,
                                DownsampledMsg(attr_name, n \div HoursPerYear, 1),
                                BlockMean(attr.l, n \div HoursPerYear))
       ELSE AddErr(S, InvalidLength(attr_name))

validate_8760(S, attr, obj_name, attr_name, time_steps_per_hour) ==
    IF S.exc # "" THEN S
    ELSE IF ~HasLen(attr) THEN Raise(S, "validate_8760:len")
    ELSE IF ~NumEq(time_steps_per_hour, 1)
         THEN validate_8760_SubHourly(S, attr, obj_name, attr_name, time_steps_per_hour)
    ELSE validate_8760_Hourly(S, attr, obj_name, attr_name)

\* self.input_dict['Scenario']['time_steps_per_hour'] raises KeyError when absent
HasTimeSteps(t) == Get(t, "Scenario", "time_steps_per_hour").t # "absent"
TimeSteps(t) == Get(t, "Scenario", "time_steps_per_hour")

(***************************************************************************)
(* The comparison functions of passes 1 to 5, each applied to one object   *)
(***************************************************************************)
isAttributeKey(o, k) == k # UnknownObjectKey     \* isAttribute: the key starts in lower case
\* The keys of real_values.items() that a comparison function looks at.
PresentAttributes(t, o) == SelectSeq(PresentKeys(t, o), LAMBDA k : isAttributeKey(o, k))

\* ---- pass 1: remove_invalid_keys ----
RECURSIVE RemoveInvalid(_, _, _)
RemoveInvalid(S, o, keys) ==
    IF keys = <<>> THEN S
    ELSE LET name == Head(keys)
             S1 == IF name \notin Range(SchemaAttrs(o))
                   THEN [S EXCEPT !.tree = delete_attribute(@, o, name),
                                  !.inv = Append(@, Warn(name, Path(o)))]
                   ELSE S
         IN RemoveInvalid(S1, o, Tail(keys))

remove_invalid_keys(S, o) ==
    IF S.tree[o].st = "dict" THEN RemoveInvalid(S, o, PresentAttributes(S.tree, o)) ELSE S

\* ---- pass 2: remove_nones ----
\* object_name_path[-1] is a string: the location recorded is the name itself.
NameOnly(o) == <<o>>

RECURSIVE RemoveNones(_, _, _)
RemoveNones(S, o, keys) ==
    IF keys = <<>> THEN S
    ELSE LET name == Head(keys)
             S1 == IF Get(S.tree, o, name).t = "none"
                   THEN [S EXCEPT !.tree = delete_attribute(@, o, name),
                                  !.none = Append(@, Warn(name, NameOnly(o)))]
                   ELSE S
         IN RemoveNones(S1, o, Tail(keys))

remove_nones(S, o) ==
    IF S.tree[o].st = "dict" THEN RemoveNones(S, o, PresentAttributes(S.tree, o)) ELSE S

\* ---- pass 3: convert_data_types ----
TypeName(type) == IF type = "union" THEN "float" ELSE type
CouldNotConvert(o, name, type) ==
    PErr("could_not_convert", object_name_string(o), name, 0, TypeName(type))
ContainsNaN(o, name) == PErr("contains_nan", object_name_string(o), name, 0, "")

\* value in [True, False, 1, 0]
InBoolLiterals(v) == v.t \in {"num", "bool"} /\ v.n \in {0, 1}

\* The scalar-or-series branch for a value that is a list (lines 874-896).
ConvertSeries(S, o, name, value) ==
    IF value.s = "null" THEN AddErr(S, ContainsNaN(o, name))
    ELSE IF value.s # "" THEN AddErr(S, CouldNotConvert(o, name, "list_of_float"))
    ELSE LET new_value == List(value.l)
             S1 == [S EXCEPT !.tree = update_attribute_value(@, o, name, new_value)]
         IN IF ~HasTimeSteps(S1.tree) THEN Raise(S1, "convert_data_types:time_steps_per_hour")
            ELSE validate_8760(S1, new_value, o, name, TimeSteps(S1.tree))

\* The conversion to a scalar type (lines 900-915); make_array wraps the result.
ConvertScalar(S, o, name, value, type, make_array) ==
    LET c == Convert(type, value)
    IN IF ~c.ok THEN AddErr(S, CouldNotConvert(o, name, type))
       ELSE IF c.v.t # "bool"
            THEN [S EXCEPT !.tree = update_attribute_value(@, o, name,
                                        IF make_array THEN List(<<c.v.n>>) ELSE c.v)]
       ELSE IF ~InBoolLiterals(value) THEN AddErr(S, CouldNotConvert(o, name, type))
       ELSE S

ConvertAttribute(S, o, name) ==
    LET value == Get(S.tree, o, name)
        type == AttrDef(o, name).type
    IN IF type = "union"
       THEN IF value.t = "list" THEN ConvertSeries(S, o, name, value)
            ELSE ConvertScalar(S, o, name, value, "float", TRUE)
       ELSE ConvertScalar(S, o, name, value, type, FALSE)

RECURSIVE ConvertAll(_, _, _)
ConvertAll(S, o, keys) ==
    IF keys = <<>> \/ S.exc # "" THEN S
    ELSE ConvertAll(ConvertAttribute(S, o, Head(keys)), o, Tail(keys))

convert_data_types(S, o) ==
    IF S.tree[o].st = "dict" THEN ConvertAll(S, o, PresentAttributes(S.tree, o)) ELSE S

\* ---- pass 4: fillin_defaults ----
\* The default of an attribute: a path default is read by walking the path
\* from the Scenario object with d.get(key); [ok, v].
ResolveDefault(t, d) ==
    IF d.pathDefault = <<>> THEN Ok(d.default)
    ELSE IF t[d.pathDefault[1]].st # "dict" THEN Fail
    ELSE LET v == Get(t, d.pathDefault[1], d.pathDefault[2])
         IN Ok(IF v.t = "absent" THEN NoneV ELSE v)

\* Mutant of WrapDefault: the default is stored as the scalar it was declared as.
WrapDefault_Unwrapped(d, v) == v

\* default = [default] for a scalar-or-series attribute
WrapDefault(d, v) == IF d.type = "union" THEN List(<<v.n>>) ELSE v

FillAttribute(S, o, template_key) ==
    LET d == AttrDef(o, template_key)
        r == ResolveDefault(S.tree, d)
    IN IF ~(d.hasDefault /\ IsNone(Get(S.tree, o, template_key))) THEN S
       ELSE IF ~r.ok THEN Raise(S, "fillin_defaults:path")
       ELSE [S EXCEPT !.tree = update_attribute_value(@, o, template_key, WrapDefault(d, r.v)),
                      !.defs = Append(@, Warn(template_key, Path(o)))]

RECURSIVE FillAttributes(_, _, _)
FillAttributes(S, o, keys) ==
    IF keys = <<>> \/ S.exc # "" THEN S
    ELSE FillAttributes(FillAttribute(S, o, Head(keys)), o, Tail(keys))

RECURSIVE FillChildren(_, _, _)
FillChildren(S, o, kids) ==
    IF kids = <<>> \/ S.exc # "" THEN S
    ELSE LET c == Head(kids)
             S1 == IF S.tree[c].st = "absent"
                   THEN [S EXCEPT !.tree = InsertObject(@, c),
                                  !.defs = Append(@, Warn(c, Path(o)))]
                   ELSE S
         IN FillChildren(S1, o, Tail(kids))

fillin_defaults(S, o) ==
    LET S0 == IF S.tree[o].st # "dict" THEN [S EXCEPT !.tree = InsertObject(@, o)] ELSE S
    IN FillChildren(FillAttributes(S0, o, SchemaAttrs(o)), o, Children(o))

\* ---- pass 5: check_min_max_restrictions ----
\* The branch for a list held by a list_of_float attribute (lines 815-827).
ArrayMinErrors(o, name, d, l) ==
    IF d.hasMin /\ \E i \in DOMAIN l : l[i] < d.min
    THEN <<PErr("array_min", object_name_string(o), name, d.min, "")>> ELSE <<>>
ArrayMaxErrors(o, name, d, l) ==
    IF d.hasMax /\ \E i \in DOMAIN l : l[i] < d.max
    THEN <<PErr("array_max", object_name_string(o), name, d.max, "")>> ELSE <<>>

\* The comparisons of a scalar that converted (lines 839-847).
MinErrors(o, name, d, n) ==
    IF d.hasMin /\ n < d.min
    THEN <<PErr("min", object_name_string(o), name, d.min, "")>> ELSE <<>>
\* Mutant of MaxErrors: a value equal to the maximum is reported too.
MaxErrors_Inclusive(o, name, d, n) ==
    IF d.hasMax /\ n >= d.max
    THEN <<PErr("max", object_name_string(o), name, d.max, "")>> ELSE <<>>
MaxErrors(o, name, d, n) ==
    IF d.hasMax /\ n > d.max
    THEN <<PErr("max", object_name_string(o), name, d.max, "")>> ELSE <<>>

\* value not in data_validators['restrict_to'] (the allowed values are numbers)
RestrictErrors(o, name, d, v) ==
    IF d.restrict_to # {} /\ ~(v.t \in {"num", "bool"} /\ v.n \in d.restrict_to)
    THEN <<PErr("restrict_to", object_name_string(o), name, 0, "")>> ELSE <<>>

\* Mutant of CheckAttribute: the value converted for the comparison is written
\* back to the tree.
CheckAttribute_StoresConverted(S, o, name) ==
    LET c == Convert(TypeName(AttrDef(o, name).type), Get(S.tree, o, name))
    IN IF AttrDef(o, name).type \notin {"list_of_float", "union"} /\ c.ok
       THEN [S EXCEPT !.tree = update_attribute_value(@, o, name, c.v)]
       ELSE S

CheckAttribute(S, o, name) ==
    LET value == Get(S.tree, o, name)
        d == AttrDef(o, name)
        c == Convert(TypeName(d.type), value)
    IN IF d.type \in {"list_of_float", "union"} /\ value.t = "list"
       THEN IF (d.hasMin \/ d.hasMax) /\ value.s # ""
            THEN Raise(S, "check_min_max_restrictions:compare")
            ELSE [S EXCEPT !.errs = @ \o ArrayMinErrors(o, name, d, value.l)
                                      \o ArrayMaxErrors(o, name, d, value.l)]
       ELSE IF ~c.ok
            THEN [S EXCEPT !.errs = @ \o <<PErr("could_not_check", object_name_string(o),
                                                 name, 0, "")>>
                                      \o RestrictErrors(o, name, d, value)]
       ELSE [S EXCEPT !.errs = @ \o (IF c.v.t = "num"
                                     THEN MinErrors(o, name, d, c.v.n) \o MaxErrors(o, name, d, c.v.n)
                                     ELSE <<>>)
                                   \o RestrictErrors(o, name, d, c.v)]

RECURSIVE CheckAll(_, _, _)
CheckAll(S, o, keys) ==
    IF keys = <<>> \/ S.exc # "" THEN S
    ELSE CheckAll(CheckAttribute(S, o, Head(keys)), o, Tail(keys))

check_min_max_restrictions(S, o) ==
    IF S.tree[o].st = "dict" THEN CheckAll(S, o, PresentAttributes(S.tree, o)) ELSE S

\* ---- pass 6: check_required_attributes ----
\* The attribute names in the order sorted() puts them.
AlphabeticalNames ==
    <<"add_blended_rates_to_urdb_rate", "annual_kwh",
      "blended_monthly_demand_charges_us_dollars_per_kw",
      "blended_monthly_rates_us_dollars_per_kwh", "bogus_key", "critical_loads_kw",
      "doe_reference_name", "existing_kw", "fuel_intercept_gal_per_hr",
      "fuel_slope_gal_per_kwh", "latitude", "loads_kw", "loads_kw_is_net", "max_kw",
      "min_kw", "outage_end_hour", "outage_start_hour", "pressure_atmospheres",
      "site_series_kw", "size_class", "temperature_celsius", "tilt", "time_steps_per_hour",
      "urdb_label", "urdb_rate_name", "urdb_response", "urdb_utility_name",
      "wholesale_rate_us_dollars_per_kwh", "wind_direction_degrees",
      "wind_meters_per_sec", "year">>
Rank(name) == CHOOSE i \in DOMAIN AlphabeticalNames : AlphabeticalNames[i] = name

\* sorted(replace): a list of names in alphabetical order
RECURSIVE InsertName(_, _)
InsertName(sorted, name) ==
    IF sorted = <<>> THEN <<name>>
    ELSE IF Rank(name) < Rank(Head(sorted)) THEN <<name>> \o sorted
    ELSE <<Head(sorted)>> \o InsertName(Tail(sorted), name)
RECURSIVE SortNames(_)
SortNames(names) ==
    IF names = <<>> THEN <<>> ELSE InsertName(SortNames(Tail(names)), Head(names))

\* sorted(missing_attribute_sets): lists of names in lexicographic order
RECURSIVE ListLess(_, _)
ListLess(a, b) ==
    IF a = <<>> THEN b # <<>>
    ELSE IF b = <<>> THEN FALSE
    ELSE IF Head(a) = Head(b) THEN ListLess(Tail(a), Tail(b))
    ELSE Rank(Head(a)) < Rank(Head(b))
RECURSIVE InsertList(_, _)
InsertList(sorted, l) ==
    IF sorted = <<>> THEN <<l>>
    ELSE IF ListLess(l, Head(sorted)) THEN <<l>> \o sorted
    ELSE <<Head(sorted)>> \o InsertList(Tail(sorted), l)
RECURSIVE SortLists(_)
SortLists(lists) ==
    IF lists = <<>> THEN <<>> ELSE InsertList(SortLists(Tail(lists)), Head(lists))

\* set(real_values.keys())
KeySet(t, o) == {k \in Keys(o) : t[o].a[k].t # "absent"}

\* The loop over the replacement sets (lines 985-995): stops with nothing
\* missing at the first set that is fully present.
RECURSIVE ScanReplacements(_, _, _)
ScanReplacements(present, replacements, missing_attribute_sets) ==
    IF replacements = <<>> THEN missing_attribute_sets
    ELSE IF Range(Head(replacements)) \subseteq present THEN <<>>
    ELSE LET replace == SortNames(Head(replacements))
         IN ScanReplacements(present, Tail(replacements),
                IF replace \in Range(missing_attribute_sets) THEN missing_attribute_sets
                ELSE Append(missing_attribute_sets, replace))

\* The missing attribute sets of one schema attribute (lines 977-1005).
MissingAttributeSets(t, o, key) ==
    LET d == AttrDef(o, key)
        current_set == {key} \cup Range(d.depends_on)
        missing == SelectSeq(d.depends_on, LAMBDA dep : IsNone(Get(t, o, dep)))
    IN IF d.hasReplacements
       THEN IF current_set \subseteq KeySet(t, o) THEN <<>>
            ELSE ScanReplacements(KeySet(t, o), d.replacement_sets, <<>>)
       ELSE IF ~IsNone(Get(t, o, key)) /\ missing # <<>> THEN <<missing>>
       ELSE <<>>

\* Mutant of SetsMessage: the missing sets are joined in the order found, unsorted.
SetsMessage_Unsorted(missing_attribute_sets) ==
    "(" \o Join(" OR ", [i \in DOMAIN missing_attribute_sets |->
                            Join(" and ", missing_attribute_sets[i])]) \o ")"

\* '(' + ' OR '.join([' and '.join(missing_set) ...]) + ')'
SetsMessage(missing_attribute_sets) ==
    LET sorted == SortLists(missing_attribute_sets)
    IN "(" \o Join(" OR ", [i \in DOMAIN sorted |-> Join(" and ", sorted[i])]) \o ")"

\* all_missing_attribute_sets: the distinct messages of the attributes, in schema order.
RECURSIVE AllMissingAttributeSets(_, _, _, _)
AllMissingAttributeSets(t, o, keys, acc) ==
    IF keys = <<>> THEN acc
    ELSE LET sets == MissingAttributeSets(t, o, Head(keys))
             message == SetsMessage(sets)
         IN AllMissingAttributeSets(t, o, Tail(keys),
                IF sets # <<>> /\ message \notin Range(acc) THEN Append(acc, message) ELSE acc)

\* Mutant of MissingRequired: required attributes are never looked at.
MissingRequired_None(t, o) == <<>>

\* The simple required attributes that are missing (lines 1017-1022).
MissingRequired(t, o) ==
    SelectSeq(SchemaAttrs(o), LAMBDA k : AttrDef(o, k).required /\ IsNone(Get(t, o, k)))

\* final_message (lines 1013-1029)
FinalMessage(t, o) ==
    LET sets == Join(" AND ", AllMissingAttributeSets(t, o, SchemaAttrs(o), <<>>))
        missing == MissingRequired(t, o)
    IN IF missing = <<>> THEN sets
       ELSE IF sets # "" THEN sets \o " and " \o Join(" and ", missing)
       ELSE Join(" and ", missing)

check_required_attributes(S, o) ==
    LET final_message == FinalMessage(S.tree, o)
    IN IF final_message # ""
       THEN AddErr(S, PErr("missing_required", object_name_string(o), "", 0, final_message))
       ELSE S

(***************************************************************************)
(* Pass 7: check_special_cases and the collaborators it calls              *)
(***************************************************************************)
\* ---- URDB_RateValidator(**urdb_response) as one call ----
RECURSIVE RunHandlers(_, _, _)
RunHandlers(doc, pos, acc) ==
    IF pos > Len(FieldOrder) \/ acc.raised THEN acc
    ELSE LET r == Handler(doc, FieldOrder[pos])
         IN RunHandlers(doc, NextPresent(doc, pos + 1),
                        [errors |-> acc.errors \o r.errors,
                         warnings |-> acc.warnings \o r.warnings,
                         raised |-> r.raised])

\* [errors, warnings, raised] of the validator constructed on a rate document
URDB_RateValidator(rate) ==
    RunHandlers(rate.f, NextPresent(rate.f, 1),
                [errors |-> HardProblemErrors(rate), warnings |-> <<>>, raised |-> FALSE])

\* The rate documents a tariff may hold or a lookup may return; utility / name
\* tell whether the document has the keys 'utility' and 'name'.
GoodEnergyDoc ==
    With(With(With(EmptyDoc, "energyratestructure", RateVal(<<PlainGroup>>)),
              "energyweekdayschedule", SchedVal(TRUE, DailySchedule(0, 0))),
         "energyweekendschedule", SchedVal(TRUE, DailySchedule(0, 0)))
UrdbDocs ==
    << [label |-> "custom", f |-> GoodEnergyDoc, utility |-> TRUE, name |-> TRUE],
       [label |-> "custom",
        f |-> With(GoodEnergyDoc, "energyweekdayschedule", SchedVal(TRUE, DailySchedule(0, 1))),
        utility |-> FALSE, name |-> FALSE],
       [label |-> "custom",
        f |-> With(GoodEnergyDoc, "energyweekendschedule", SchedVal(FALSE, <<>>)),
        utility |-> TRUE, name |-> TRUE] >>

\* URDB_RateValidator(**urdb_response) for each of the documents, computed once.
RateCheckers == [i \in DOMAIN UrdbDocs |-> URDB_RateValidator(UrdbDocs[i])]

\* ---- validate_urdb_response ----
validate_urdb_response(S) ==
    LET urdb_response == Get(S.tree, "ElectricTariff", "urdb_response")
        rate == UrdbDocs[urdb_response.n]
        t1 == IF IsNone(Get(S.tree, "ElectricTariff", "urdb_utility_name"))
              THEN update_attribute_value(S.tree, "ElectricTariff", "urdb_utility_name",
                                          IF rate.utility THEN Str("utility") ELSE NoneV)
              ELSE S.tree
        t2 == IF IsNone(Get(t1, "ElectricTariff", "urdb_rate_name"))
              THEN update_attribute_value(t1, "ElectricTariff", "urdb_rate_name",
                                          IF rate.name THEN Str("name") ELSE NoneV)
              ELSE t1
        rate_checker == RateCheckers[urdb_response.n]
    IN IF urdb_response.t # "dict" THEN S
       ELSE [S EXCEPT !.tree = t2,
                      !.calls = Append(@, "URDB_RateValidator"),
                      !.urdb = IF rate_checker.raised
                               THEN Append(@, UrdbEntry("parse_error", <<>>))
                               ELSE IF rate_checker.errors # <<>>
                               THEN Append(@, UrdbEntry("list", rate_checker.errors))
                               ELSE @]

\* ---- the ElectricTariff rule (lines 727-776) ----
\* What Rate(...) does: it returns with urdb_dict set ("found", d), returns
\* with urdb_dict None ("not_found"), or raises.
RateOutcomes ==
    {[k |-> "found", d |-> i] : i \in DOMAIN UrdbDocs}
    \cup {[k |-> "not_found", d |-> 0], [k |-> "raise", d |-> 0]}

\* electric_tariff.get(key, '') != ''
NotEmptyString(v) == ~(v.t = "absent" \/ (v.t = "str" /\ v.s = ""))

Lookup(S, by, outcome) ==
    LET S1 == [S EXCEPT !.calls = Append(@, "Rate:" \o by)]
    IN CASE outcome.k = "raise" -> Raise(S1, "Rate")
         [] outcome.k = "not_found" ->
                [S1 EXCEPT !.urdb = Append(@, UrdbEntry("unable_to_download:" \o by, <<>>))]
         [] OTHER ->
                validate_urdb_response(
                    [S1 EXCEPT !.tree = update_attribute_value(@, "ElectricTariff",
                                            "urdb_response", Dict(outcome.d))])

\* Mutant of ResolveRate: the label is looked at before the rate document.
ResolveRate_LabelFirst(S, outcome) ==
    LET et(k) == Get(S.tree, "ElectricTariff", k)
    IN IF NotEmptyString(et("urdb_label")) THEN Lookup(S, "urdb_label", outcome)
       ELSE IF ~IsNone(et("urdb_response")) THEN validate_urdb_response(S)
       ELSE IF NotEmptyString(et("urdb_utility_name")) /\ NotEmptyString(et("urdb_rate_name"))
            THEN Lookup(S, "urdb_utility_name", outcome)
       ELSE S

ResolveRate(S, outcome) ==
    LET et(k) == Get(S.tree, "ElectricTariff", k)
    IN IF ~IsNone(et("urdb_response")) THEN validate_urdb_response(S)
       ELSE IF NotEmptyString(et("urdb_label")) THEN Lookup(S, "urdb_label", outcome)
       ELSE IF NotEmptyString(et("urdb_utility_name")) /\ NotEmptyString(et("urdb_rate_name"))
            THEN Lookup(S, "urdb_utility_name", outcome)
       ELSE S

\* electric_tariff.get(key, True) == True
MissingOrTrue(v) == v.t = "absent" \/ NumEq(v, 1)

BlendedRatesCheck(S) ==
    LET et(k) == Get(S.tree, "ElectricTariff", k)
        missing_keys ==
            (IF MissingOrTrue(et("blended_monthly_demand_charges_us_dollars_per_kw"))
             THEN <<"blended_monthly_demand_charges_us_dollars_per_kw">> ELSE <<>>)
            \o (IF MissingOrTrue(et("blended_monthly_rates_us_dollars_per_kwh"))
                THEN <<"blended_monthly_rates_us_dollars_per_kwh">> ELSE <<>>)
            \o (IF MissingOrTrue(et("urdb_response"))
                THEN <<"urdb_response OR urdb_label OR urdb_utility_name and urdb_rate_name">>
                ELSE <<>>)
    IN IF S.exc # "" THEN S
       ELSE IF et("add_blended_rates_to_urdb_rate").t = "absent"
            THEN Raise(S, "check_special_cases:add_blended_rates_to_urdb_rate")
       ELSE IF Truthy(et("add_blended_rates_to_urdb_rate")) /\ missing_keys # <<>>
            THEN AddErr(S, PErr("blended_missing", "", "", 0, Join(", ", missing_keys)))
       ELSE S

MonthlyEntries == 12

BlendedLength(S, blended) ==
    LET v == Get(S.tree, "ElectricTariff", blended)
    IN IF S.exc # "" \/ ~Truthy(v) THEN S
       ELSE IF ~HasLen(v) THEN Raise(S, "check_special_cases:len")
       ELSE IF LenOf(v) # MonthlyEntries THEN AddErr(S, PErr("blended_length", "", blended, 0, ""))
       ELSE S

ElectricTariffRule(S, outcome) ==
    BlendedLength(
        BlendedLength(BlendedRatesCheck(ResolveRate(S, outcome)),
                      "blended_monthly_demand_charges_us_dollars_per_kw"),
        "blended_monthly_rates_us_dollars_per_kwh")

\* ---- the LoadProfile rules (lines 722-725 and 778-793) ----
\* a == b for two values of the document
ValEq(a, b) ==
    IF a.t \in {"num", "bool"} /\ b.t \in {"num", "bool"} THEN a.n = b.n ELSE a = b

OutageCheck(S) ==
    LET start == Get(S.tree, "LoadProfile", "outage_start_hour")
        end == Get(S.tree, "LoadProfile", "outage_end_hour")
    IN IF ~IsNone(start) /\ ~IsNone(end) /\ ValEq(start, end)
       THEN AddErr(S, PErr("outage_same", "", "", 0, ""))
       ELSE S

\* real_values.get(lp) not in [None, []]
GivenSeries(v) == ~(IsNone(v) \/ (v.t = "list" /\ v.l = <<>> /\ v.s = ""))

\* real_values.get(lp + '_is_net'), True when missing
IsNet(t, lp) ==
    IF lp \o "_is_net" \in Keys("LoadProfile") /\ ~IsNone(Get(t, "LoadProfile", lp \o "_is_net"))
    THEN Truthy(Get(t, "LoadProfile", lp \o "_is_net"))
    ELSE TRUE

LoadSeries(S, lp) ==
    LET S1 == validate_8760(S, Get(S.tree, "LoadProfile", lp), "LoadProfile", lp,
                            TimeSteps(S.tree))
        v == Get(S1.tree, "LoadProfile", lp)
    IN IF S.exc # "" \/ ~GivenSeries(Get(S.tree, "LoadProfile", lp)) THEN S
       ELSE IF ~HasTimeSteps(S.tree) THEN Raise(S, "check_special_cases:time_steps_per_hour")
       ELSE IF S1.exc # "" \/ IsNet(S1.tree, lp) \/ ~isValidOf(S1.errs, S1.urdb) THEN S1
       ELSE IF v.t # "list" \/ v.s # "" THEN Raise(S1, "check_special_cases:min")
       ELSE IF \E i \in DOMAIN v.l : v.l[i] < 0
            THEN AddErr(S1, PErr("negative_load", "", lp, 0, ""))
       ELSE S1

ReferenceYear == 2017

PinYear(S) ==
    IF S.exc = "" /\ ~IsNone(Get(S.tree, "LoadProfile", "doe_reference_name"))
    THEN [S EXCEPT !.tree = update_attribute_value(@, "LoadProfile", "year", Num(ReferenceYear))]
    ELSE S

LoadProfileRule(S) ==
    PinYear(LoadSeries(LoadSeries(OutageCheck(S), "critical_loads_kw"), "loads_kw"))

\* ---- the Wind rule (lines 649-707) ----
\* What BuiltInProfile(...) does: it returns with built_in_profile set, or raises.
BuiltInProfiles ==
    {[i \in 1..HoursPerYear |-> 8], [i \in 1..HoursPerYear |-> 2000]}
BuiltInOutcomes ==
    {[k |-> "ok", l |-> b] : b \in BuiltInProfiles} \cup {[k |-> "raise", l |-> <<>>]}
\* What get_conic_coords(...) does: it returns or raises.
ConicOutcomes == {"ok", "raise"}

HoursInYear == 8760

\* size_class by avg_load_kw = total / count against 12.5, 100 and 1000
SizeClass(total, count) ==
    IF 2 * total <= 25 * count THEN "residential"
    ELSE IF total <= 100 * count THEN "commercial"
    ELSE IF total <= 1000 * count THEN "medium"
    ELSE "large"

\* isinstance(value, float) or isinstance(value, int)
IsNumber(v) == v.t \in {"num", "bool"}

WindSeries(S) ==
    LET step(S0, name) ==
            IF S0.exc # "" THEN S0
            ELSE validate_8760(S0, Get(S0.tree, "Wind", name), "Wind", name, TimeSteps(S0.tree))
    IN IF ~HasTimeSteps(S.tree) THEN Raise(S, "check_special_cases:time_steps_per_hour")
       ELSE step(step(step(step(S, "wind_meters_per_sec"), "wind_direction_degrees"),
                      "temperature_celsius"), "pressure_atmospheres")

SetSizeClass(S, total, count) ==
    [S EXCEPT !.tree = update_attribute_value(@, "Wind", "size_class",
                                               Str(SizeClass(total, count)))]

\* The block `if ...get('size_class') is None` (lines 668-700).
WindSizeClass(S, builtin) ==
    LET annual_kwh == Get(S.tree, "LoadProfile", "annual_kwh")
        loads_kw == Get(S.tree, "LoadProfile", "loads_kw")
        S1 == [S EXCEPT !.calls = Append(@, "BuiltInProfile")]
    IN IF S.tree["LoadProfile"].st # "dict" THEN Raise(S, "check_special_cases:LoadProfile")
       ELSE IF ~IsNone(annual_kwh)
            THEN IF IsNumber(annual_kwh) THEN SetSizeClass(S, annual_kwh.n, HoursInYear)
                 ELSE Raise(S, "check_special_cases:annual_kwh")
       ELSE IF GivenSeries(loads_kw) THEN SetSizeClass(S, 0, 1)
       ELSE IF IsNone(Get(S.tree, "Site", "latitude"))
            THEN Raise(S, "check_special_cases:latitude")
       ELSE IF builtin.k = "raise" THEN Raise(S1, "BuiltInProfile")
       ELSE SetSizeClass(
                [S1 EXCEPT !.tree = update_attribute_value(@, "LoadProfile", "loads_kw",
                                                            List(builtin.l))],
                Sum(builtin.l), Len(builtin.l))

\* try: get_conic_coords(...) except Exception as e: append e.args[0]
ConicCheck(S, conic) ==
    IF S.exc # "" THEN S
    ELSE IF Get(S.tree, "Site", "latitude").t = "absent"
         THEN AddErr(S, PErr("conic", "", "latitude", 0, ""))
    ELSE LET S1 == [S EXCEPT !.calls = Append(@, "get_conic_coords")]
         IN IF conic = "raise" THEN AddErr(S1, PErr("conic", "", "", 0, "")) ELSE S1

WindRule(S, builtin, conic) ==
    LET max_kw == Get(S.tree, "Wind", "max_kw")
    IN IF max_kw.t = "absent" THEN Raise(S, "check_special_cases:max_kw")
       ELSE IF ~(IsNumber(max_kw) /\ max_kw.n > 0) THEN S
       ELSE IF Truthy(Get(S.tree, "Wind", "wind_meters_per_sec")) THEN WindSeries(S)
       ELSE ConicCheck(IF IsNone(Get(S.tree, "Wind", "size_class"))
                       THEN WindSizeClass(S, builtin) ELSE S, conic)

\* ---- the Generator rule (lines 709-719) ----
\* Generator.default_fuel_burn_rate(size_kw): slope m and intercept b, both
\* non-zero, chosen by the size of the generator.
default_fuel_burn_rate(size_kw) ==
    IF size_kw <= 40 THEN [m |-> 1, b |-> 1] ELSE [m |-> 2, b |-> 1]

GeneratorRule(S) ==
    LET gen(k) == Get(S.tree, "Generator", k)
        r == default_fuel_burn_rate(gen("min_kw").n + gen("existing_kw").n)
        t1 == IF NumEq(gen("fuel_slope_gal_per_kwh"), 0)
              THEN update_attribute_value(S.tree, "Generator", "fuel_slope_gal_per_kwh", Num(r.m))
              ELSE S.tree
        t2 == IF NumEq(gen("fuel_intercept_gal_per_hr"), 0)
              THEN update_attribute_value(t1, "Generator", "fuel_intercept_gal_per_hr", Num(r.b))
              ELSE t1
    IN IF ~isValidOf(S.errs, S.urdb) THEN S
       ELSE IF \E k \in {"max_kw", "existing_kw"} : ~IsNumber(gen(k))
            THEN Raise(S, "check_special_cases:Generator")
       ELSE IF ~(gen("max_kw").n > 0 \/ gen("existing_kw").n > 0) THEN S
       ELSE IF ~IsNumber(gen("min_kw")) THEN Raise(S, "check_special_cases:Generator")
       ELSE [S EXCEPT !.calls = Append(@, "Generator.default_fuel_burn_rate"), !.tree = t2]

\* ---- check_special_cases, for one object ----
check_special_cases(S, o, rate, builtin, conic) ==
    CASE o = "Wind" -> WindRule(S, builtin, conic)
      [] o = "Generator" -> GeneratorRule(S)
      [] o = "ElectricTariff" -> ElectricTariffRule(S, rate)
      [] o = "LoadProfile" -> LoadProfileRule(S)
      [] OTHER -> S

(***************************************************************************)
(* The documents submitted                                                 *)
(***************************************************************************)
\* A series of n samples (multiples of 4, so that block means are whole).
Series(n) == [i \in 1..n |-> 4 * i]
MonthlyValues(n) == [i \in 1..n |-> 4]

EmptyTree == [o \in Objects |-> NoObject(o)]

\* An assignment of an edit: key k of object o becomes v; k = "" sets the
\* object itself (v none: null, otherwise an empty dict); o = "" adds a key
\* at the top level of the document.
Assign(o, k, v) == [o |-> o, k |-> k, v |-> v]

RECURSIVE EnsureObject(_, _)
EnsureObject(t, o) ==
    LET t1 == IF Parent(o) = "" THEN t ELSE EnsureObject(t, Parent(o))
    IN IF t1[o].st = "dict" THEN t1 ELSE [t1 EXCEPT ![o] = NewObject(o)]

\* A null object has no descendants.
NullifyObject(t, o) ==
    [x \in Objects |->
        IF x = o THEN NullObject(o)
        ELSE IF Parent(x) = o \/ (Parent(x) # "" /\ Parent(Parent(x)) = o) THEN NoObject(x)
        ELSE t[x]]

ApplyAssign(doc, a) ==
    IF a.o = "" THEN [doc EXCEPT !.top = @ \cup {a.k}]
    ELSE IF a.k = ""
         THEN IF a.v.t = "none"
              THEN [doc EXCEPT !.tree = NullifyObject(EnsureObject(@, a.o), a.o)]
              ELSE [doc EXCEPT !.tree = EnsureObject(@, a.o)]
    ELSE IF doc.tree[a.o].st = "null" THEN doc
    ELSE [doc EXCEPT !.tree = [EnsureObject(@, a.o) EXCEPT ![a.o].a[a.k] = a.v]]

RECURSIVE ApplyEdit(_, _)
ApplyEdit(doc, edit) ==
    IF edit = <<>> THEN doc ELSE ApplyEdit(ApplyAssign(doc, Head(edit)), Tail(edit))

\* A document the validator accepts: a site with a reference building load
\* and a custom tariff.
BaseDoc ==
    ApplyEdit([tree |-> EmptyTree, top |-> {}],
              << Assign("Site", "latitude", Num(40)),
                 Assign("LoadProfile", "doe_reference_name", Str("Hospital")),
                 Assign("LoadProfile", "annual_kwh", Num(100000)),
                 Assign("ElectricTariff", "urdb_response", Dict(1)) >>)

WindSeriesEdit(n) ==
    << Assign("Wind", "max_kw", Num(8)),
       Assign("Wind", "wind_meters_per_sec", List(Series(n))),
       Assign("Wind", "wind_direction_degrees", List(Series(n))),
       Assign("Wind", "temperature_celsius", List(Series(n))),
       Assign("Wind", "pressure_atmospheres", List(Series(n))) >>

\* The edits, each a list of assignments; the edits of a document are applied
\* in this order.
Edits ==
    << <<Assign("", "bogus_top_level", Num(1))>>,
       <<Assign("Scenario", "time_steps_per_hour", Num(1))>>,
       <<Assign("Scenario", "time_steps_per_hour", Num(2))>>,
       <<Assign("Scenario", "time_steps_per_hour", Num(4))>>,
       <<Assign("Scenario", "time_steps_per_hour", Num(3))>>,
       <<Assign("Site", "latitude", AbsentV)>>,
       <<Assign("Site", "latitude", NoneV)>>,
       <<Assign("Site", "latitude", Num(-91))>>,
       <<Assign("Site", "latitude", Num(-90))>>,
       <<Assign("Site", "latitude", Num(90))>>,
       <<Assign("Site", "latitude", Num(91))>>,
       <<Assign("Site", "latitude", NumStr(5))>>,
       <<Assign("Site", "latitude", Str("abc"))>>,
       <<Assign("Site", "site_series_kw", List(Series(2 * HoursPerYear)))>>,
       <<Assign("Site", UnknownKey, Num(1))>>,
       <<Assign("Site", UnknownObjectKey, Dict(1))>>,
       <<Assign("LoadProfile", "doe_reference_name", AbsentV)>>,
       <<Assign("LoadProfile", "annual_kwh", AbsentV)>>,
       <<Assign("LoadProfile", "loads_kw", List(Series(HoursPerYear)))>>,
       <<Assign("LoadProfile", "loads_kw", List(Series(2 * HoursPerYear)))>>,
       <<Assign("LoadProfile", "loads_kw", List(Series(HoursPerYear + 1)))>>,
       <<Assign("LoadProfile", "loads_kw", List([i \in 1..HoursPerYear |-> -4]))>>,
       <<Assign("LoadProfile", "loads_kw", BadList(Series(HoursPerYear - 1), "str"))>>,
       <<Assign("LoadProfile", "annual_kwh", AbsentV),
         Assign("LoadProfile", "loads_kw", List([i \in 1..HoursPerYear |-> 2000]))>>,
       <<Assign("LoadProfile", "loads_kw_is_net", Bool(FALSE))>>,
       <<Assign("LoadProfile", "loads_kw_is_net", Num(1))>>,
       <<Assign("LoadProfile", "loads_kw_is_net", Str("abc"))>>,
       <<Assign("LoadProfile", "critical_loads_kw", List(Series(4 * HoursPerYear)))>>,
       <<Assign("LoadProfile", "outage_start_hour", Num(5)),
         Assign("LoadProfile", "outage_end_hour", Num(5))>>,
       <<Assign("ElectricTariff", "urdb_response", AbsentV)>>,
       <<Assign("ElectricTariff", "urdb_response", Dict(2))>>,
       <<Assign("ElectricTariff", "urdb_response", Dict(3))>>,
       <<Assign("ElectricTariff", "urdb_response", Str("abc"))>>,
       <<Assign("ElectricTariff", "urdb_label", Str("label"))>>,
       <<Assign("ElectricTariff", "urdb_utility_name", Str("utility")),
         Assign("ElectricTariff", "urdb_rate_name", Str("name"))>>,
       <<Assign("ElectricTariff", "urdb_utility_name", Str("utility"))>>,
       <<Assign("ElectricTariff", "add_blended_rates_to_urdb_rate", Bool(TRUE))>>,
       <<Assign("ElectricTariff", "blended_monthly_rates_us_dollars_per_kwh",
                List(MonthlyValues(MonthsPerYear))),
         Assign("ElectricTariff", "blended_monthly_demand_charges_us_dollars_per_kw",
                List(MonthlyValues(MonthsPerYear)))>>,
       <<Assign("ElectricTariff", "blended_monthly_rates_us_dollars_per_kwh",
                List(MonthlyValues(MonthsPerYear - 1)))>>,
       <<Assign("ElectricTariff", "blended_monthly_rates_us_dollars_per_kwh", List(<<>>))>>,
       <<Assign("ElectricTariff", "wholesale_rate_us_dollars_per_kwh", Num(4))>>,
       <<Assign("ElectricTariff", "wholesale_rate_us_dollars_per_kwh", Num(-4))>>,
       <<Assign("ElectricTariff", "wholesale_rate_us_dollars_per_kwh",
                List(Series(HoursPerYear)))>>,
       <<Assign("ElectricTariff", "wholesale_rate_us_dollars_per_kwh",
                List(Series(2 * HoursPerYear)))>>,
       <<Assign("ElectricTariff", "wholesale_rate_us_dollars_per_kwh",
                List(Series(4 * HoursPerYear)))>>,
       <<Assign("ElectricTariff", "wholesale_rate_us_dollars_per_kwh",
                List(Series(HoursPerYear + 1)))>>,
       <<Assign("ElectricTariff", "wholesale_rate_us_dollars_per_kwh",
                BadList(Series(HoursPerYear - 1), "str"))>>,
       <<Assign("ElectricTariff", "wholesale_rate_us_dollars_per_kwh",
                BadList(Series(HoursPerYear - 1), "null"))>>,
       <<Assign("Wind", "max_kw", Num(8))>>,
       <<Assign("Wind", "max_kw", Num(8)), Assign("Wind", "size_class", Str("large"))>>,
       WindSeriesEdit(HoursPerYear),
       <<Assign("Wind", "max_kw", Num(8)),
         Assign("Wind", "wind_meters_per_sec", List(Series(HoursPerYear)))>>,
       <<Assign("PV", "tilt", Num(91))>>,
       <<Assign("PV", "tilt", NoneV)>>,
       <<Assign("PV", "prod_factor_series_kw", List(<<ArrayMax - 4, ArrayMax>>))>>,
       <<Assign("PV", "prod_factor_series_kw", List(<<ArrayMax + 4, ArrayMax + 4>>))>>,
       <<Assign("PV", "prod_factor_series_kw", List(<<-4, ArrayMax + 4>>))>>,
       <<Assign("Generator", "max_kw", Num(8))>>,
       <<Assign("Generator", "max_kw", Num(8)),
         Assign("Generator", "fuel_slope_gal_per_kwh", Num(3))>>,
       <<Assign("Wind", "", NoneV)>>,
       <<Assign("Site", "", NoneV)>>,
       <<Assign("Scenario", "", NoneV)>> >>

\* The chosen edits applied in the order of the list.
RECURSIVE ApplyEdits(_, _)
ApplyEdits(doc, chosen) ==
    IF chosen = {} THEN doc
    ELSE LET i == Min(chosen)
         IN ApplyEdits(ApplyEdit(doc, Edits[i]), chosen \ {i})

\* The sets of at most k edits, each built once by adding edits in rising order.
RECURSIVE EditChoices(_)
EditChoices(k) ==
    IF k = 0 THEN {{}}
    ELSE LET fewer == EditChoices(k - 1)
         IN fewer \cup UNION {{c \cup {e} : e \in {y \in DOMAIN Edits : \A z \in c : y > z}} :
                                  c \in {x \in fewer : Cardinality(x) = k - 1}}
\* The document explored for a choice of edits.
InputDoc(chosen) == ApplyEdits(BaseDoc, chosen)

(***************************************************************************)
(* ValidateNestedInput.__init__ as a state machine                         *)
(***************************************************************************)
LastPass == 7
Returned == LastPass + 1

\* The objects recursively_check_input_dict visits in a pass.  With the
\* schema as template it visits every object of the schema; in pass 2 the
\* document is its own template and it visits the objects the document has.
\* (An unknown capitalised key of the document is an empty dictionary: the call
\* pass 2 makes on it does nothing and is left out.)
\* Mutant of Visits: every pass takes the document as its template.
Visits_DocumentOnly(p, t) == SelectSeq(ObjOrder, LAMBDA o : t[o].st # "absent")

Visits(p, t) ==
    IF p = 2 THEN SelectSeq(ObjOrder, LAMBDA o : t[o].st # "absent") ELSE ObjOrder

Current == Visits(pass, tree)[idx]

\* The walker is about to call the comparison function of pass p.
AtPass(p) == pass = p /\ exc = ""

\* The call of the comparison function on the current object has produced
\* state R: store it and move the walker on, unless an exception ended __init__.
Commit(comparison_function, R) ==
    /\ visited' = Append(visited, [f |-> comparison_function, o |-> Current])
    /\ tree' = R.tree
    /\ input_data_errors' = R.errs
    /\ urdb_errors' = R.urdb
    /\ input_as_none' = R.none
    /\ invalid_inputs' = R.inv
    /\ resampled_inputs' = R.res
    /\ defaults_inserted' = R.defs
    /\ exc' = R.exc
    /\ calls' = R.calls
    /\ IF R.exc # "" THEN UNCHANGED <<pass, idx>>
       ELSE IF idx < Len(Visits(pass, R.tree)) THEN pass' = pass /\ idx' = idx + 1
       ELSE pass' = pass + 1 /\ idx' = 1
    /\ UNCHANGED <<input, top_keys, run, first, report>>
    /\ UNCHANGED u_vars
    /\ UNCHANGED k_vars

\* In pass 2 the walker recurses into the value of the object itself:
\* nested_template[template_k].items() raises on a null.
RecurseIntoDocument(S, o) ==
    IF S.tree[o].st = "null" THEN Raise(S, "recursively_check_input_dict:items") ELSE S

Init ==
    /\ \E chosen \in EditChoices(MaxEdits) : input = InputDoc(chosen)
    /\ tree = input.tree
    /\ top_keys = {}
    /\ input_data_errors = <<>>
    /\ urdb_errors = <<>>
    /\ input_as_none = <<>>
    /\ invalid_inputs = <<>>
    /\ resampled_inputs = <<>>
    /\ defaults_inserted = <<>>
    /\ pass = 0
    /\ idx = 1
    /\ exc = ""
    /\ calls = <<>>
    /\ visited = <<>>
    /\ run = 1
    /\ first = [set |-> FALSE, tree |-> EmptyTree, defaults_inserted |-> <<>>,
                resampled_inputs |-> <<>>]
    /\ u_doc = <<>> /\ u_pos = 0 /\ u_errors = <<>> /\ u_warnings = <<>>
    /\ u_raised = FALSE /\ u_returned = {}
    /\ KIdle
    /\ report = NoReport

\* self.input_dict = dict(); self.input_dict['Scenario'] = ...: the keys of the
\* dictionary the passes work on.
input_dict_keys(doc) == {"Scenario"}

\* Mutant of TopLevelInvalid: the keys at the top level are not recorded.
TopLevelInvalid_Unrecorded(doc) == <<>>

\* The entries recorded for the keys of the submitted document other than
\* 'Scenario' (the documents explored hold at most one such key).
TopLevelInvalid(doc) ==
    [i \in 1..Cardinality(doc.top) |-> Warn(CHOOSE k \in doc.top : TRUE, <<"Top Level">>)]

\* __init__ up to the first pass (lines 370-382).
Construct ==
    /\ AtPass(0)
    /\ tree' = [tree EXCEPT !["Scenario"] = IF @.st = "dict" THEN @ ELSE NewObject("Scenario")]
    /\ top_keys' = input_dict_keys(input)
    /\ invalid_inputs' = TopLevelInvalid(input)
    /\ input_data_errors' = <<>>
    /\ urdb_errors' = <<>>
    /\ input_as_none' = <<>>
    /\ resampled_inputs' = <<>>
    /\ defaults_inserted' = <<>>
    /\ pass' = 1
    /\ idx' = 1
    /\ visited' = <<>>
    /\ UNCHANGED <<input, exc, calls, run, first, report>>
    /\ UNCHANGED u_vars
    /\ UNCHANGED k_vars

Walk_remove_invalid_keys ==
    /\ AtPass(1)
    /\ Commit("remove_invalid_keys", remove_invalid_keys(State, Current))

Walk_remove_nones ==
    /\ AtPass(2)
    /\ Commit("remove_nones", RecurseIntoDocument(remove_nones(State, Current), Current))

Walk_convert_data_types ==
    /\ AtPass(3)
    /\ Commit("convert_data_types", convert_data_types(State, Current))

Walk_fillin_defaults ==
    /\ AtPass(4)
    /\ Commit("fillin_defaults", fillin_defaults(State, Current))

Walk_check_min_max_restrictions ==
    /\ AtPass(5)
    /\ Commit("check_min_max_restrictions", check_min_max_restrictions(State, Current))

Walk_check_required_attributes ==
    /\ AtPass(6)
    /\ Commit("check_required_attributes", check_required_attributes(State, Current))

\* The outcomes of a collaborator that only the rule of object `user` calls.
CollaboratorOutcomes(o, user, outcomes) ==
    IF o = user THEN outcomes ELSE {CHOOSE x \in outcomes : TRUE}

Walk_check_special_cases ==
    /\ AtPass(7)
    /\ \E rate \in CollaboratorOutcomes(Current, "ElectricTariff", RateOutcomes),
          builtin \in CollaboratorOutcomes(Current, "Wind", BuiltInOutcomes),
          conic \in CollaboratorOutcomes(Current, "Wind", ConicOutcomes) :
          Commit("check_special_cases", check_special_cases(State, Current, rate, builtin, conic))

(***************************************************************************)
(* The rendered report: warnings, errors, messages                         *)
(***************************************************************************)
\* warning_message: a dictionary from '>'-joined path to the ' AND '-joined
\* arguments recorded for that path, as the list of its items in insertion order.
RECURSIVE warning_message_items(_, _)
warning_message_items(warnings, output) ==
    IF warnings = <<>> THEN output
    ELSE LET arg == Head(warnings).arg
             path == Join(">", Head(warnings).path)
             seen == {i \in DOMAIN output : output[i].path = path}
         IN warning_message_items(Tail(warnings),
                IF seen = {} THEN Append(output, [path |-> path, text |-> arg])
                ELSE [i \in DOMAIN output |->
                         IF i \in seen THEN [output[i] EXCEPT !.text = @ \o " AND " \o arg]
                         ELSE output[i]])
warning_message(warnings) == warning_message_items(warnings, <<>>)

\* One item of the warnings dictionary, or nothing when the list is empty.
WarningItem(title, list) ==
    IF list # <<>> THEN <<[title |-> title, messages |-> warning_message(list)]>> ELSE <<>>

\* warnings (property): the items of the dictionary in insertion order.
warnings ==
    WarningItem("Default values used for the following:", defaults_inserted)
    \o WarningItem("Following inputs are invalid:", invalid_inputs)
    \o WarningItem("Following inputs were resampled:", resampled_inputs)

\* errors (property): the keys of the dictionary and the value of 'input_errors'.
\* With both lists non-empty the tariff errors are appended to the input errors;
\* with one of them non-empty it is the value.
errors ==
    IF input_data_errors # <<>> /\ urdb_errors # <<>>
    THEN [keys |-> {"error", "input_errors"}, input_errors |-> input_data_errors \o urdb_errors]
    ELSE IF input_data_errors # <<>>
    THEN [keys |-> {"error", "input_errors"}, input_errors |-> input_data_errors]
    ELSE IF urdb_errors # <<>>
    THEN [keys |-> {"error", "input_errors"}, input_errors |-> urdb_errors]
    ELSE [keys |-> {}, input_errors |-> <<>>]


\* ---- reading the report of a validator whose constructor has returned ----
MaxReads == 2      \* reads of the report per validator

\* One evaluation of the errors property on the lists ide and urdb: with both
\* non-empty, output["input_errors"] is self.input_data_errors itself and
\* `+=` extends that list in place.
errors_in_place(ide, urdb) == IF ide # <<>> /\ urdb # <<>> THEN ide \o urdb ELSE ide

CanRead == pass = Returned /\ exc = "" /\ report.n < MaxReads

\* v = validator.errors
Read_errors ==
    /\ CanRead
    /\ input_data_errors' = errors_in_place(input_data_errors, urdb_errors)
    /\ report' = [n |-> report.n + 1, e |-> report.e + 1, input_errors |-> errors.input_errors]
    /\ UNCHANGED <<input, tree, top_keys, urdb_errors, input_as_none, invalid_inputs,
                   resampled_inputs, defaults_inserted, pass, idx, exc, calls, visited,
                   run, first>>
    /\ UNCHANGED <<u_vars, k_vars>>

\* v = validator.warnings
Read_warnings ==
    /\ CanRead
    /\ report' = [report EXCEPT !.n = @ + 1]
    /\ UNCHANGED <<input, tree, top_keys, input_data_errors, urdb_errors, input_as_none,
                   invalid_inputs, resampled_inputs, defaults_inserted, pass, idx, exc,
                   calls, visited, run, first>>
    /\ UNCHANGED <<u_vars, k_vars>>

\* v = validator.messages: self.errors is evaluated for the test `!= {}` and,
\* when that holds, once more for the value; then self.warnings likewise.
Read_messages ==
    /\ CanRead
    /\ LET once == errors_in_place(input_data_errors, urdb_errors)
           twice == errors_in_place(once, urdb_errors)
       IN /\ input_data_errors' = (IF errors.keys # {} THEN twice ELSE input_data_errors)
          /\ report' = [n |-> report.n + 1, e |-> report.e + 1,
                        input_errors |-> IF input_data_errors # <<>> THEN twice
                                         ELSE errors.input_errors]
    /\ UNCHANGED <<input, tree, top_keys, urdb_errors, input_as_none, invalid_inputs,
                   resampled_inputs, defaults_inserted, pass, idx, exc, calls, visited,
                   run, first>>
    /\ UNCHANGED <<u_vars, k_vars>>

\* The caller feeds the normalized document of a valid first run back in.
Resubmit ==
    /\ AtPass(Returned)
    /\ run = 1
    /\ isValid
    /\ first' = [set |-> TRUE, tree |-> tree, defaults_inserted |-> defaults_inserted,
                 resampled_inputs |-> resampled_inputs]
    /\ input' = [tree |-> tree, top |-> {}]
    /\ run' = 2
    /\ pass' = 0
    /\ idx' = 1
    /\ visited' = <<>>
    /\ report' = NoReport
    /\ UNCHANGED <<tree, top_keys, input_data_errors, urdb_errors, input_as_none,
                   invalid_inputs, resampled_inputs, defaults_inserted, exc, calls>>
    /\ UNCHANGED u_vars
    /\ UNCHANGED k_vars

Next ==
    \/ Construct
    \/ Walk_remove_invalid_keys
    \/ Walk_remove_nones
    \/ Walk_convert_data_types
    \/ Walk_fillin_defaults
    \/ Walk_check_min_max_restrictions
    \/ Walk_check_required_attributes
    \/ Walk_check_special_cases
    \/ Read_errors
    \/ Read_warnings
    \/ Read_messages
    \/ Resubmit

Spec == Init /\ [][Next]_vars

(***************************************************************************)
(* Claims about ValidateNestedInput (checked under Spec)                   *)
(***************************************************************************)
\* __init__ has returned (all seven passes ran) in the given run.
Finished(r) == pass = Returned /\ run = r /\ exc = ""
\* Pass p has just finished: the walker stands at the first object of pass p + 1.
PassDone(p) == pass = p + 1 /\ idx = 1 /\ exc = ""

\* The entries of input_data_errors of kind k that name attribute a of object o.
ErrorCount(k, o, a) ==
    Cardinality({i \in DOMAIN input_data_errors :
        /\ input_data_errors[i].k = k
        /\ input_data_errors[i].o = o
        /\ input_data_errors[i].a = a})

\* C1: re-running the pipeline on the normalized document of a valid first run
\* raises nothing, leaves the document unchanged, inserts no defaults, removes
\* no keys, resamples nothing and reports no fatal error.
C1_RerunIdempotent ==
    /\ run = 2 => exc = ""
    /\ Finished(2) =>
          /\ tree = first.tree
          /\ defaults_inserted = <<>>
          /\ invalid_inputs = <<>>
          /\ input_as_none = <<>>
          /\ resampled_inputs = <<>>
          /\ isValid

\* C2: for every input document the constructor runs all seven passes to
\* completion; no exception escapes to the caller.
C2_NoExceptionEscapes == exc = ""

\* C3: a failure of an external collaborator called from check_special_cases
\* (Rate, BuiltInProfile, get_conic_coords, URDB_RateValidator) never
\* propagates out of the pipeline.
C3_CollaboratorFailuresCaught == exc \notin {"Rate", "BuiltInProfile"}

\* ---- C4 ----
\* The attribute had no user-supplied value: absent or null in the document submitted.
NotSupplied(o, a) == IsNone(input.tree[o].a[a])
DefaultsRecorded(o, a) == Count(defaults_inserted, Warn(a, Path(o)))
\* The declared default, or the value found by walking the path of a path default.
DeclaredDefault(o, a) ==
    LET d == AttrDef(o, a)
    IN IF d.pathDefault = <<>> THEN d.default
       ELSE IF tree[d.pathDefault[1]].a[d.pathDefault[2]].t = "absent" THEN NoneV
       ELSE tree[d.pathDefault[1]].a[d.pathDefault[2]]
HasCapacity == Get(tree, "Generator", "max_kw").n > 0 \/ Get(tree, "Generator", "existing_kw").n > 0

\* C4 as stated: every attribute with a declared default and no user-supplied
\* value holds exactly that default (or the path-resolved value) in the
\* normalized output and is recorded once under defaults_inserted.
C4_ExactDefault ==
    Finished(1) =>
        \A o \in Objects : \A a \in Range(SchemaAttrs(o)) :
            (AttrDef(o, a).hasDefault /\ NotSupplied(o, a)) =>
                /\ Get(tree, o, a) = DeclaredDefault(o, a)
                /\ DefaultsRecorded(o, a) = 1

\* C4 amended: such an attribute is recorded once under defaults_inserted and
\* the normalized output holds its default (or path-resolved value), except
\* that a scalar-or-series attribute holds the default as a single-element
\* sequence, LoadProfile year holds 2017 when doe_reference_name is given, and
\* a Generator with capacity may hold its default burn rate in place of a zero
\* fuel slope / intercept.
C4_DefaultsFilled ==
    Finished(1) =>
        \A o \in Objects : \A a \in Range(SchemaAttrs(o)) :
            (AttrDef(o, a).hasDefault /\ NotSupplied(o, a)) =>
                /\ DefaultsRecorded(o, a) = 1
                /\ CASE AttrDef(o, a).type = "union" ->
                            Get(tree, o, a) = List(<<DeclaredDefault(o, a).n>>)
                     [] a = "year" /\ ~IsNone(Get(tree, o, "doe_reference_name")) ->
                            Get(tree, o, a) = Num(2017)
                     [] a \in {"fuel_slope_gal_per_kwh", "fuel_intercept_gal_per_hr"}
                          /\ HasCapacity ->
                            LET size_kw == Get(tree, o, "min_kw").n + Get(tree, o, "existing_kw").n
                                r == default_fuel_burn_rate(size_kw)
                            IN Get(tree, o, a) \in
                                 {DeclaredDefault(o, a),
                                  Num(IF a = "fuel_slope_gal_per_kwh" THEN r.m ELSE r.b)}
                     [] OTHER -> Get(tree, o, a) = DeclaredDefault(o, a)

\* Witness of C4: a finished run that filled the wholesale rate with [0], the
\* PV tilt with the site latitude and the generator's minimum size with 0.
C4_Witness ==
    /\ Finished(1)
    /\ NotSupplied("ElectricTariff", "wholesale_rate_us_dollars_per_kwh")
    /\ Get(tree, "ElectricTariff", "wholesale_rate_us_dollars_per_kwh") = List(<<0>>)
    /\ NotSupplied("PV", "tilt")
    /\ Get(tree, "PV", "tilt") = Num(90)
    /\ Get(tree, "Generator", "min_kw") = Num(0)
    /\ DefaultsRecorded("PV", "tilt") = 1

\* ---- C5 ----
\* C5: when check_min_max_restrictions has run, every attribute that holds a
\* number and declares a min and/or max has exactly one error per bound the
\* number is strictly outside of, and none for a bound it is inside of or equal to.
C5_ScalarBounds ==
    PassDone(5) =>
        \A o \in Objects : \A a \in Range(SchemaAttrs(o)) :
            LET d == AttrDef(o, a)
                v == Get(tree, o, a)
            IN (v.t = "num" /\ d.type \in {"float", "int"}) =>
                 /\ ErrorCount("min", object_name_string(o), a) =
                        IF d.hasMin /\ v.n < d.min THEN 1 ELSE 0
                 /\ ErrorCount("max", object_name_string(o), a) =
                        IF d.hasMax /\ v.n > d.max THEN 1 ELSE 0

\* Witness of C5: the range check has run on a tilt above its maximum (one
\* error) and a latitude equal to its maximum (no error).
C5_Witness ==
    /\ PassDone(5)
    /\ Get(tree, "PV", "tilt") = Num(91)
    /\ ErrorCount("max", "Scenario>Site>PV", "tilt") = 1
    /\ Get(tree, "Site", "latitude") = Num(90)
    /\ ErrorCount("max", "Scenario>Site", "latitude") = 0
    /\ ErrorCount("min", "Scenario>Site", "latitude") = 0

\* ---- C6 ----
\* A group of a replacement set is fully present at the object.
GroupPresent(o, group) == \A name \in Range(group) : Get(tree, o, name).t # "absent"
AnyGroupPresent(o, sets) == \E g \in DOMAIN sets : GroupPresent(o, sets[g])
\* The messages of the missing-required errors recorded for an object.
RequiredMessages(o) ==
    LET at == SelectSeq(input_data_errors,
                        LAMBDA e : e.k = "missing_required" /\ e.o = object_name_string(o))
    IN [i \in DOMAIN at |-> at[i].m]

\* C6 as stated: when no group of the replacement sets is fully present the
\* message parenthesises each group, "(a and b) OR (c)"; when some group is
\* fully present there is no message.
C6_GroupsParenthesised ==
    PassDone(6) =>
        /\ RequiredMessages("LoadProfile") =
              IF AnyGroupPresent("LoadProfile", load_profile_possible_sets) THEN <<>>
              ELSE <<"(annual_kwh and doe_reference_name) OR (doe_reference_name) OR (loads_kw)">>
        /\ RequiredMessages("ElectricTariff") =
              IF AnyGroupPresent("ElectricTariff", electric_tariff_possible_sets) THEN <<>>
              ELSE <<"(blended_monthly_demand_charges_us_dollars_per_kw and "
                     \o "blended_monthly_rates_us_dollars_per_kwh) OR (urdb_label) OR "
                     \o "(urdb_rate_name and urdb_utility_name) OR (urdb_response)">>

\* C6 amended: when no group of the replacement sets is fully present the
\* object gets one message: the groups, each with its names sorted and joined
\* by " and ", sorted and joined by " OR ", the whole inside one pair of
\* parentheses, "(a and b OR c)"; when some group is fully present (e.g. c
\* alone) there is no message.
C6_ReplacementSetsMessage ==
    PassDone(6) =>
        /\ RequiredMessages("LoadProfile") =
              IF AnyGroupPresent("LoadProfile", load_profile_possible_sets) THEN <<>>
              ELSE <<"(annual_kwh and doe_reference_name OR doe_reference_name OR loads_kw)">>
        /\ RequiredMessages("ElectricTariff") =
              IF AnyGroupPresent("ElectricTariff", electric_tariff_possible_sets) THEN <<>>
              ELSE <<"(blended_monthly_demand_charges_us_dollars_per_kw and "
                     \o "blended_monthly_rates_us_dollars_per_kwh OR urdb_label OR "
                     \o "urdb_rate_name and urdb_utility_name OR urdb_response)">>

\* Witness of C6: the required-attribute check has run on a load profile with
\* annual_kwh alone (no group fully present: one message) and on a tariff
\* with urdb_response alone (a group fully present: no message).
C6_Witness ==
    /\ PassDone(6)
    /\ Get(tree, "LoadProfile", "annual_kwh").t = "num"
    /\ ~AnyGroupPresent("LoadProfile", load_profile_possible_sets)
    /\ Len(RequiredMessages("LoadProfile")) = 1
    /\ GroupPresent("ElectricTariff", <<"urdb_response">>)
    /\ Get(tree, "ElectricTariff", "urdb_label").t = "absent"
    /\ RequiredMessages("ElectricTariff") = <<>>

\* ---- C9 ----
\* The series attributes handed to validate_8760 whenever they are given.
NormalizedSeries ==
    {<<"LoadProfile", "loads_kw">>, <<"LoadProfile", "critical_loads_kw">>,
     <<"ElectricTariff", "wholesale_rate_us_dollars_per_kwh">>}
\* Entry i of `new` is the mean of the i-th block of k consecutive entries of `old`.
IsBlockMean(new, old, k) ==
    /\ Len(new) * k = Len(old)
    /\ \A i \in DOMAIN new :
          k * new[i] = (IF k = 2 THEN old[2 * i - 1] + old[2 * i]
                        ELSE old[4 * i - 3] + old[4 * i - 2] + old[4 * i - 1] + old[4 * i])
\* The resampled_inputs records for an attribute of an object.
ResampledCount(o, a) ==
    Cardinality({i \in DOMAIN resampled_inputs :
        /\ resampled_inputs[i].path = <<o>>
        /\ \E from \in {1, 2, 4}, to \in {1, 2, 4} :
              resampled_inputs[i].arg \in {DownsampledMsg(a, from, to), UpsampledMsg(a, from, to)}})

\* C9: with time_steps_per_hour = 1, a series of the hourly length is left
\* unchanged with no warning and no error; a series of twice or four times that
\* length is replaced by the means of its blocks of 2 or 4 entries and gets
\* exactly one resampled_inputs record; a series of any other length gets
\* exactly one length error and is left unchanged.
C9_HourlyNormalization ==
    (Finished(1) /\ NumEq(Get(tree, "Scenario", "time_steps_per_hour"), 1)) =>
        \A oa \in NormalizedSeries :
            LET old == input.tree[oa[1]].a[oa[2]]
                new == Get(tree, oa[1], oa[2])
                length_errors == ErrorCount("invalid_length", "", oa[2])
                records == ResampledCount(oa[1], oa[2])
            IN (old.t = "list" /\ old.s = "" /\ old.l # <<>>) =>
                 CASE Len(old.l) = HoursPerYear ->
                        new = old /\ length_errors = 0 /\ records = 0
                   [] Len(old.l) \in {2 * HoursPerYear, 4 * HoursPerYear} ->
                        /\ new.t = "list" /\ Len(new.l) = HoursPerYear
                        /\ IsBlockMean(new.l, old.l, Len(old.l) \div HoursPerYear)
                        /\ length_errors = 0
                        /\ records = 1
                   [] OTHER ->
                        new = old /\ length_errors = 1 /\ records = 0

\* Witness of C9: an hourly run has finished on a load series of twice the
\* hourly length, now averaged and recorded once, and on a critical load
\* series of four times the hourly length.
C9_Witness ==
    /\ Finished(1)
    /\ NumEq(Get(tree, "Scenario", "time_steps_per_hour"), 1)
    /\ Len(input.tree["LoadProfile"].a["loads_kw"].l) = 2 * HoursPerYear
    /\ Len(Get(tree, "LoadProfile", "loads_kw").l) = HoursPerYear
    /\ ResampledCount("LoadProfile", "loads_kw") = 1
    /\ Len(input.tree["LoadProfile"].a["critical_loads_kw"].l) = 4 * HoursPerYear
    /\ ResampledCount("LoadProfile", "critical_loads_kw") = 1

\* ---- C10 ----
\* C10: at every point of the pipeline and after it, isValid is true exactly
\* when input_data_errors and urdb_errors are both empty, whatever the
\* warning lists hold.
C10_IsValidIffNoErrors ==
    isValid <=> (Len(input_data_errors) = 0 /\ Len(urdb_errors) = 0)

\* Witness of C10: the only fatal error is a tariff error, warnings are
\* recorded, and isValid is false.
C10_Witness ==
    /\ Len(input_data_errors) = 0
    /\ Len(urdb_errors) > 0
    /\ Len(defaults_inserted) > 0
    /\ Len(invalid_inputs) > 0
    /\ ~isValid

\* A warning list is exposed: some item of warnings holds its path-keyed messages.
Exposed(list) == \E i \in DOMAIN warnings : warnings[i].messages = warning_message(list)

\* C11: once the pipeline has finished, each of the four warning categories
\* (defaults_inserted, invalid_inputs, resampled_inputs, input_as_none) that has
\* at least one record appears in the rendered warnings as the map from
\* '>'-joined path to the ' AND '-joined details recorded for that path.
C11_AllCategoriesRendered ==
    Finished(1) =>
        \A list \in {defaults_inserted, invalid_inputs, resampled_inputs, input_as_none} :
            list # <<>> => Exposed(list)

\* The entry is one message string (not the list of a validator's errors).
IsMessageString(entry) == ~("errs" \in DOMAIN entry /\ entry.k = "list")

\* C12: once the pipeline has finished, every entry of the rendered
\* input_errors is a single message string (each error of the rate validator
\* is an entry of its own), and input_errors is the input errors followed by
\* the tariff errors.
C12_InputErrorsAreStrings ==
    Finished(1) =>
        /\ \A i \in DOMAIN errors.input_errors : IsMessageString(errors.input_errors[i])
        /\ errors.input_errors = input_data_errors \o urdb_errors

\* ---- C13 ----
\* The unknown keys the submitted document holds at object o.
UnknownKeysGiven(o) ==
    {k \in Keys(o) \ Range(SchemaAttrs(o)) :
        input.tree[o].st = "dict" /\ input.tree[o].a[k].t # "absent"}

\* C13: after the pipeline, at every object of the normalized document every
\* key present is declared in the schema at that object; each unknown key the
\* document held is recorded once with its path in invalid_inputs and is named
\* by no fatal error.
C13_UnknownKeysStripped ==
    Finished(1) =>
        \A o \in Objects :
            /\ KeySet(tree, o) \subseteq Range(SchemaAttrs(o))
            /\ \A k \in UnknownKeysGiven(o) :
                  /\ Count(invalid_inputs, Warn(k, Path(o))) = 1
                  /\ \A i \in DOMAIN input_data_errors :
                      "a" \in DOMAIN input_data_errors[i] => input_data_errors[i].a # k

\* ---- C14 ----
\* The Scenario object submitted is the valid one of the base document.
ValidScenarioGiven == input.tree = BaseDoc.tree

\* C14: an unknown top-level key supplied next to a Scenario object is absent
\* from the normalized document, is recorded once under invalid_inputs with
\* location "Top Level", is named by no fatal error, and next to a valid
\* Scenario object leaves isValid true.
C14_TopLevelKeyDropped ==
    Finished(1) =>
        \A k \in input.top :
            /\ k \notin top_keys
            /\ Count(invalid_inputs, Warn(k, <<"Top Level">>)) = 1
            /\ \A i \in DOMAIN input_data_errors :
                      "a" \in DOMAIN input_data_errors[i] => input_data_errors[i].a # k
            /\ ValidScenarioGiven => isValid

\* Witness of C14: the base document with an unknown top-level key has gone
\* through the pipeline; the key is recorded and the report is valid.
C14_Witness ==
    /\ Finished(1)
    /\ input.top # {}
    /\ ValidScenarioGiven
    /\ top_keys = {"Scenario"}
    /\ invalid_inputs = <<Warn("bogus_top_level", <<"Top Level">>)>>
    /\ isValid

\* ---- C15 ----
\* __init__ has ended in the given run: it returned or an exception left it.
Ended(r) == run = r /\ (pass = Returned \/ exc # "")
\* The LoadProfile object holds outage_start_hour and outage_end_hour, and they are equal.
SameOutageHours ==
    /\ tree["LoadProfile"].st = "dict"
    /\ ~IsNone(Get(tree, "LoadProfile", "outage_start_hour"))
    /\ ~IsNone(Get(tree, "LoadProfile", "outage_end_hour"))
    /\ ValEq(Get(tree, "LoadProfile", "outage_start_hour"),
             Get(tree, "LoadProfile", "outage_end_hour"))
OutageErrors == Count(input_data_errors, PErr("outage_same", "", "", 0, ""))

\* C15: whenever the LoadProfile object ends up with outage_start_hour equal to
\* outage_end_hour (both present), the validation finishes with a report that
\* holds exactly one 'outage_start_hour and outage_end_hour cannot be the same'
\* error, whatever the other fields and objects of the document are.
C15_SameOutageHoursOneError ==
    (Ended(1) /\ SameOutageHours) => (Finished(1) /\ OutageErrors = 1)

\* ---- C16 ----
\* The objects the submitted document holds with a null value.
NullObjectsGiven == {o \in Objects : input.tree[o].st = "null"}
\* Every attribute of object o that has a default holds a value.
DefaultsPresent(o) ==
    \A a \in Range(SchemaAttrs(o)) : AttrDef(o, a).hasDefault /\ AttrDef(o, a).pathDefault = <<>>
                                        => ~IsNone(Get(tree, o, a))

\* C16: a singular object key present in the document with a null value is
\* treated like an absent object: no exception leaves the pipeline, and when it
\* has finished the object exists and holds its schema defaults.
C16_NullObjectLikeAbsent ==
    \A o \in NullObjectsGiven :
        /\ run = 1 => exc = ""
        /\ Finished(1) => (tree[o].st = "dict" /\ DefaultsPresent(o))

\* ---- C17 ----
\* The calls of Rate(...) among the collaborator calls.
RateCalls(made) == SelectSeq(made, LAMBDA c : c \in {"Rate:urdb_label", "Rate:urdb_utility_name"})
\* The walker is about to apply check_special_cases to the ElectricTariff object.
AtElectricTariffRule == AtPass(7) /\ run = 1 /\ Current = "ElectricTariff"
\* The lookup the ElectricTariff object asks for, by the priority of its keys.
ExpectedLookup ==
    LET et(k) == Get(tree, "ElectricTariff", k)
    IN IF ~IsNone(et("urdb_response")) THEN <<>>
       ELSE IF NotEmptyString(et("urdb_label")) THEN <<"Rate:urdb_label">>
       ELSE IF NotEmptyString(et("urdb_utility_name")) /\ NotEmptyString(et("urdb_rate_name"))
            THEN <<"Rate:urdb_utility_name">>
       ELSE <<>>
\* The blended-rate rules of the ElectricTariff object applied to state S.
BlendedRules(S) ==
    BlendedLength(
        BlendedLength(BlendedRatesCheck(S), "blended_monthly_demand_charges_us_dollars_per_kw"),
        "blended_monthly_rates_us_dollars_per_kwh")
\* The step made a lookup that found nothing: it returned and left no rate document.
LookupNotFound ==
    /\ RateCalls(calls') # RateCalls(calls)
    /\ exc' = ""
    /\ IsNone(Get(tree', "ElectricTariff", "urdb_response"))

\* C17: rate resolution follows a strict priority: with urdb_response present
\* no lookup is made, otherwise a non-empty urdb_label makes one lookup by
\* label, otherwise a non-empty utility and rate name make one lookup by names;
\* a run makes at most one lookup; a lookup that finds nothing adds exactly one
\* tariff error, the blended-rate rules of the ElectricTariff object are still
\* applied and the walker goes on to the next object.
C17_RatePriority ==
    /\ [](run = 1 => Len(RateCalls(calls)) <= 1)
    /\ [][AtElectricTariffRule =>
            /\ RateCalls(calls') = RateCalls(calls) \o ExpectedLookup
            /\ LookupNotFound =>
                  /\ Len(urdb_errors') = Len(urdb_errors) + 1
                  /\ urdb_errors'[Len(urdb_errors')].k \in
                        {"unable_to_download:urdb_label", "unable_to_download:urdb_utility_name"}
                  /\ input_data_errors' = BlendedRules(State).errs
                  /\ pass' = 7 /\ idx' = idx + 1]_vars
    /\ [][~AtElectricTariffRule /\ run = 1 /\ run' = 1 => RateCalls(calls') = RateCalls(calls)]_vars

\* Witness of C17: no rate document, a label and names were given; one lookup
\* by label found nothing, one tariff error is reported and the pipeline finished.
C17_Witness ==
    /\ Finished(1)
    /\ IsNone(input.tree["ElectricTariff"].a["urdb_response"])
    /\ NotEmptyString(input.tree["ElectricTariff"].a["urdb_label"])
    /\ RateCalls(calls) = <<"Rate:urdb_label">>
    /\ urdb_errors = <<UrdbEntry("unable_to_download:urdb_label", <<>>)>>

\* ---- C18 ----
\* The comparison functions in the order the spec names the passes: KeyFilter,
\* NullStrip, TypeCoercion, DefaultFiller, RangeChecker, RequiredResolver,
\* SpecialCaseRules.
PassOrder ==
    <<"remove_invalid_keys", "remove_nones", "convert_data_types", "fillin_defaults",
      "check_min_max_restrictions", "check_required_attributes", "check_special_cases">>
\* The objects pass p was applied to, in the order of the calls.
VisitedIn(p) ==
    LET of_pass == SelectSeq(visited, LAMBDA v : v.f = PassOrder[p])
    IN [i \in DOMAIN of_pass |-> of_pass[i].o]
\* The singular objects of the tree pass p walks: the document's own objects
\* for NullStrip, the objects of the schema for the others.
ObjectsOfTree(p) ==
    IF p = 2 THEN SelectSeq(ObjOrder, LAMBDA o : o = "Scenario" \/ input.tree[o].st # "absent")
    ELSE ObjOrder
\* The calls of pass p over the whole tree.
PassVisits(p) ==
    LET objects == ObjectsOfTree(p)
    IN [i \in DOMAIN objects |-> [f |-> PassOrder[p], o |-> objects[i]]]
\* The calls of a validation that returns: the seven passes in the fixed order,
\* each over every singular object of the tree.
AllVisits ==
    PassVisits(1) \o PassVisits(2) \o PassVisits(3) \o PassVisits(4) \o PassVisits(5)
    \o PassVisits(6) \o PassVisits(7)

\* C18: the seven passes run in the fixed order KeyFilter, NullStrip,
\* TypeCoercion, DefaultFiller, RangeChecker, RequiredResolver,
\* SpecialCaseRules, and a pass visits every singular object of the tree before
\* the next pass visits any object: at every moment the calls made so far are
\* an initial part of the pass-by-pass sequence, and a validation that returns
\* has made all of them.
C18_PassesInOrder ==
    /\ Len(visited) <= Len(AllVisits)
    /\ visited = SubSeq(AllVisits, 1, Len(visited))
    /\ pass = Returned /\ exc = "" => visited = AllVisits

\* Witness of C18: a document without Wind, PV and Generator objects has gone
\* through all seven passes; NullStrip visited the four objects of the document,
\* the other passes the seven objects of the schema.
C18_Witness ==
    /\ Finished(1)
    /\ Len(VisitedIn(2)) = 4
    /\ Len(visited) = 6 * Len(ObjOrder) + 4
    /\ visited[1] = [f |-> "remove_invalid_keys", o |-> "Scenario"]
    /\ visited[Len(visited)] = [f |-> "check_special_cases", o |-> "Generator"]

\* ---- C19 ----
\* The attribute keys present in the tree that hold a null.
NullAttributes ==
    {<<o, k>> \in UNION {{<<x, y>> : y \in Keys(x)} : x \in Objects} :
        tree[o].st = "dict" /\ tree[o].a[k].t = "none"}

\* C19: from the end of NullStrip until the pipeline finishes, no attribute key
\* present in the tree holds a null value.
C19_NoNullAfterNullStrip ==
    (run = 1 /\ pass > 2 /\ pass <= Returned) => NullAttributes = {}

\* ---- C20 ----
\* The attributes with a declared bound that hold an array of numbers.
BoundedArrays ==
    {<<o, a>> \in UNION {{<<x, y>> : y \in Range(SchemaAttrs(x))} : x \in Objects} :
        /\ AttrDef(o, a).type \in {"list_of_float", "union"}
        /\ AttrDef(o, a).hasMin \/ AttrDef(o, a).hasMax
        /\ tree[o].st = "dict"
        /\ Get(tree, o, a).t = "list" /\ Get(tree, o, a).s = ""}

\* C20: when RangeChecker has run, an array-valued attribute with a declared
\* min has one min error if and only if some element is below min, and one that
\* has a declared max has one max error if and only if some element is above
\* max; an array whose elements all lie within the bounds has no bound error.
C20_ArrayBounds ==
    (run = 1 /\ PassDone(5)) =>
        \A x \in BoundedArrays :
            LET d == AttrDef(x[1], x[2])
                l == Get(tree, x[1], x[2]).l
                below == d.hasMin /\ \E i \in DOMAIN l : l[i] < d.min
                above == d.hasMax /\ \E i \in DOMAIN l : l[i] > d.max
            IN /\ ErrorCount("array_min", object_name_string(x[1]), x[2]) = (IF below THEN 1 ELSE 0)
               /\ ErrorCount("array_max", object_name_string(x[1]), x[2]) = (IF above THEN 1 ELSE 0)


(***************************************************************************)
(* Claims C21 - C30                                                        *)
(***************************************************************************)
\* The schedule fields whose handler has returned while the rate structure
\* they are paired with is no attribute of the document.
SchedulesWithoutRate ==
    {s \in ScheduleFields : s \in u_returned /\ ~hasattr(u_doc.f, PairedRate(s))}

\* C21: a schedule field that is present while its paired rate-structure field
\* is entirely absent produces a warning ("<rate> does not exist to check
\* <schedule>") and no error caused by that absence.
C21_AbsentRateWarnsOnly ==
    \A s \in SchedulesWithoutRate :
        /\ \E i \in DOMAIN u_warnings :
              u_warnings[i].k = "no_rate_to_check" /\ u_warnings[i].g = s
        /\ ~\E i \in DOMAIN u_errors :
              u_errors[i].k = "missing_dependency" /\ u_errors[i].g = s

\* The value is of the declared type of the attribute.
HoldsDeclaredType(type, v) ==
    CASE type \in {"float", "int"} -> v.t = "num"
      [] type = "str" -> v.t \in {"str", "numstr"}
      [] type = "bool" -> v.t = "bool"
      [] type = "dict" -> v.t = "dict"
      [] OTHER -> v.t = "list" /\ v.s = ""        \* list_of_float, scalar-or-series

\* input_data_errors holds a 'Could not convert' / 'contains at least one NaN'
\* message naming attribute a of object o.
ConversionReported(o, a) ==
    \E i \in DOMAIN input_data_errors :
        /\ input_data_errors[i].k \in {"could_not_convert", "contains_nan"}
        /\ input_data_errors[i].a = a
        /\ input_data_errors[i].o = object_name_string(o)

\* The walker has just finished pass 3 (convert_data_types).
AfterTypeCoercion == pass = 4 /\ idx = 1 /\ exc = ""

\* C22: after convert_data_types every present attribute either holds a value
\* of its declared type, or holds its original value while a conversion error
\* naming it is recorded; and no conversion ends the pass (pass 3 never raises).
C22_TypedOrReported ==
    /\ AfterTypeCoercion =>
          \A o \in Objects : tree[o].st = "dict" =>
              \A a \in Range(PresentAttributes(tree, o)) :
                  \/ HoldsDeclaredType(AttrDef(o, a).type, Get(tree, o, a))
                  \/ /\ Get(tree, o, a) = Get(input.tree, o, a)
                     /\ ConversionReported(o, a)
    /\ pass = 3 => exc = ""

\* The wholesale rate series and the time_steps_per_hour the document gives.
WholesaleName == "wholesale_rate_us_dollars_per_kwh"
WholesaleGiven == Get(input.tree, "ElectricTariff", WholesaleName)
TargetSteps == Get(input.tree, "Scenario", "time_steps_per_hour")
\* The document gives a series of numbers and a time_steps_per_hour of 2 or 4.
WholesaleSeriesGiven ==
    /\ input.tree["ElectricTariff"].st = "dict"
    /\ WholesaleGiven.t = "list" /\ WholesaleGiven.s = ""
    /\ input.tree["Scenario"].st = "dict"
    /\ TargetSteps.t = "num" /\ TargetSteps.n \in {2, 4}

\* The series the normalizer must store for a series l of an accepted length:
\* 15 minute to 30 minute by the mean of each pair, otherwise every sample
\* repeated, and the series itself when the length already matches.
ExpectedSeries(l, steps) ==
    LET out == HoursPerYear * steps
    IN IF Len(l) = out THEN l
       ELSE IF Len(l) > out
            THEN [i \in 1..out |-> (l[2 * i - 1] + l[2 * i]) \div 2]
       ELSE [i \in 1..out |-> l[((i - 1) \div (out \div Len(l))) + 1]]

InvalidLengthErrors(errs, attr_name) ==
    Cardinality({i \in DOMAIN errs : errs[i] = InvalidLength(attr_name)})

\* The series names and resolutions validate_8760 is called with.
SeriesNames == {WholesaleName, "loads_kw", "critical_loads_kw", "wind_meters_per_sec"}
BadLengths == (0..(4 * HoursPerYear + 1)) \ length_list

BlendedNames == {"blended_monthly_demand_charges_us_dollars_per_kw",
                 "blended_monthly_rates_us_dollars_per_kwh"}
\* The '<name> array needs to contain 12 valid numbers.' errors recorded.
BlendedLengthErrors(blended) ==
    Count(input_data_errors, PErr("blended_length", "", blended, 0, ""))

\* C24: each blended monthly array that is present in the tree with a number
\* of entries other than 12 (zero entries included) has produced one 'needs to
\* contain 12 valid numbers' error when the constructor returns; an array of
\* exactly 12 entries has produced none.
C24_BlendedTwelveEntries ==
    (pass = Returned /\ exc = "" /\ tree["ElectricTariff"].st = "dict") =>
        \A blended \in BlendedNames :
            LET v == Get(tree, "ElectricTariff", blended)
            IN (v.t = "list" /\ v.s = "") =>
                   BlendedLengthErrors(blended) = (IF Len(v.l) # MonthlyEntries THEN 1 ELSE 0)

\* ---- the walker on one key of the template ----
\* URDB_RateValidator is not running.
UIdle ==
    /\ u_doc = <<>> /\ u_pos = 0 /\ u_errors = <<>> /\ u_warnings = <<>>
    /\ u_raised = FALSE /\ u_returned = {}

\* The non-empty keys of at most MaxKeyLen characters.
KeyStrings == UNION {[1..n -> Chars] : n \in 1..MaxKeyLen}

KInit ==
    /\ template_k \in KeyStrings
    /\ taxonomy = Unclassified
    /\ UIdle
    /\ PIdle

\* One turn of the loop of recursively_check_input_dict on template_k: the
\* walker calls the comparison function and recurses when isSingularKey holds.
recursively_check_input_dict ==
    /\ ~taxonomy.done
    /\ taxonomy' = [done |-> TRUE,
                    singular |-> isSingularKey(template_k),
                    plural |-> isPluralKey(template_k),
                    attribute |-> isAttribute(template_k),
                    recursed |-> isSingularKey(template_k)]
    /\ UNCHANGED <<template_k, u_vars, p_vars>>

SpecKeys == KInit /\ [][recursively_check_input_dict]_vars

\* C25: the key taxonomy is a partition: for every non-empty key exactly one
\* of isSingularKey, isPluralKey, isAttribute is true (keys whose first
\* character has no case included), and the walker recurses only into keys
\* classified singular.
C25_KeyTaxonomyPartition ==
    taxonomy.done =>
        /\ Cardinality({c \in {"singular", "plural", "attribute"} : taxonomy[c]}) = 1
        /\ taxonomy.recursed => taxonomy.singular

\* Some requirement of object o is unsatisfied in tree t: a required attribute
\* is absent, an attribute with replacement sets lacks part of its own set
\* (itself and its depends_on) while no replacement set is fully present, or a
\* present attribute without replacement sets lacks a depends_on attribute.
RequirementUnsatisfied(t, o) ==
    \E a \in Range(SchemaAttrs(o)) :
        LET d == AttrDef(o, a)
            has(x) == Get(t, o, x).t # "absent"
        IN \/ d.required /\ IsNone(Get(t, o, a))
           \/ /\ d.hasReplacements
              /\ ~(has(a) /\ \A x \in Range(d.depends_on) : has(x))
              /\ \A i \in DOMAIN d.replacement_sets :
                     \E x \in Range(d.replacement_sets[i]) : ~has(x)
           \/ /\ ~d.hasReplacements
              /\ ~IsNone(Get(t, o, a))
              /\ \E x \in Range(d.depends_on) : IsNone(Get(t, o, x))

\* The required attributes of the schema that declare a default.
RequiredWithDefault(o) ==
    {a \in Range(SchemaAttrs(o)) : AttrDef(o, a).required /\ AttrDef(o, a).hasDefault}

\* C26: check_required_attributes appends at most one 'Missing Required for
\* <path>' error per object per run: exactly one when, in the tree as it is
\* after the defaults were filled in, a requirement of the object is
\* unsatisfied, and none otherwise; a required attribute that declares a
\* default is filled in and so is never missing.
C26_OneMissingRequiredPerObject ==
    PassDone(6) =>
        \A o \in Objects :
            /\ Len(RequiredMessages(o)) = (IF RequirementUnsatisfied(tree, o) THEN 1 ELSE 0)
            /\ \A a \in RequiredWithDefault(o) :
                   /\ ~IsNone(Get(tree, o, a))
                   /\ a \notin Range(MissingRequired(tree, o))

\* The check has run on a document without latitude and without
\* time_steps_per_hour: Site has its one error, Scenario, whose required
\* time_steps_per_hour was defaulted, has none.
C26_Witness ==
    /\ PassDone(6)
    /\ run = 1
    /\ Get(input.tree, "Site", "latitude").t = "absent"
    /\ Get(input.tree, "Scenario", "time_steps_per_hour").t = "absent"
    /\ Len(RequiredMessages("Site")) = 1
    /\ RequiredMessages("Scenario") = <<>>
    /\ "time_steps_per_hour" \in RequiredWithDefault("Scenario")

\* The constructor has returned from the first run: the Wind rule has run.
WindRuleDone == pass = Returned /\ exc = "" /\ run = 1
\* max_kw > 0, no wind speed series, and the document gave no size_class.
WindSizeClassDue ==
    /\ IsNumber(Get(tree, "Wind", "max_kw")) /\ Get(tree, "Wind", "max_kw").n > 0
    /\ ~Truthy(Get(tree, "Wind", "wind_meters_per_sec"))
    /\ IsNone(Get(input.tree, "Wind", "size_class"))
\* The size class of the average load: annual_kwh / 8760 when annual_kwh is
\* present, otherwise the mean of loads_kw (the explicit series, or the
\* built-in profile the rule stored there).
ExpectedSizeClass ==
    LET annual_kwh == Get(tree, "LoadProfile", "annual_kwh")
        loads_kw == Get(tree, "LoadProfile", "loads_kw").l
    IN IF ~IsNone(annual_kwh) THEN SizeClass(annual_kwh.n, HoursInYear)
       ELSE SizeClass(Sum(loads_kw), Len(loads_kw))

\* C27: with max_kw > 0, no wind speed series and no size_class given, the
\* Wind rule sets size_class from the average load (annual_kwh / 8760, else the
\* mean of the explicit loads_kw, else the mean of the built-in profile):
\* residential up to 12.5, commercial up to 100, medium up to 1000, large
\* above; a size_class the user gave is kept, and with max_kw <= 0 none is set.
C27_WindSizeClass ==
    WindRuleDone =>
        LET given == Get(input.tree, "Wind", "size_class")
            max_kw == Get(tree, "Wind", "max_kw")
        IN /\ WindSizeClassDue => Get(tree, "Wind", "size_class") = Str(ExpectedSizeClass)
           /\ given.t = "str" => Get(tree, "Wind", "size_class") = given
           /\ (IsNone(given) /\ IsNumber(max_kw) /\ max_kw.n <= 0) =>
                  IsNone(Get(tree, "Wind", "size_class"))

\* The step is a read of errors, warnings or messages.
IsRead == report'.n = report.n + 1

\* C28: reading the report is free of side effects: a read of errors, warnings
\* or messages leaves input_data_errors and urdb_errors unchanged, every read
\* of errors / messages returns the same input_errors as the one before it,
\* and each tariff error appears in it exactly once.
C28_ReadsSideEffectFree ==
    [][IsRead =>
          /\ input_data_errors' = input_data_errors
          /\ urdb_errors' = urdb_errors
          /\ (report.e > 0 /\ report'.e > report.e) =>
                 report'.input_errors = report.input_errors
          /\ report'.e > report.e =>
                 \A i \in DOMAIN urdb_errors :
                     Count(report'.input_errors, urdb_errors[i]) = 1]_vars

\* The step is a call of check_min_max_restrictions or check_required_attributes.
IsCheckStep == pass \in {5, 6} /\ exc = "" /\ visited' # visited
IsPrefix(a, b) == Len(a) <= Len(b) /\ a = SubSeq(b, 1, Len(a))

\* C29: check_min_max_restrictions and check_required_attributes are pure
\* checks: a call may only append to input_data_errors; it leaves the tree
\* (every key and value, values that fail the defensive conversion included)
\* and the four warning lists unchanged.
C29_ChecksArePure ==
    [][IsCheckStep =>
          /\ tree' = tree
          /\ input_as_none' = input_as_none
          /\ invalid_inputs' = invalid_inputs
          /\ resampled_inputs' = resampled_inputs
          /\ defaults_inserted' = defaults_inserted
          /\ urdb_errors' = urdb_errors
          /\ IsPrefix(input_data_errors, input_data_errors')]_vars

\* Both checks have run on a tree whose latitude could not be converted for
\* the comparison and whose loads_kw_is_net is the number 1: the error is
\* recorded and the values are as they were.
C29_Witness ==
    /\ PassDone(6)
    /\ Get(tree, "Site", "latitude") = Str("abc")
    /\ ErrorCount("could_not_check", "Scenario>Site", "latitude") = 1
    /\ Get(tree, "LoadProfile", "loads_kw_is_net") = Num(1)

\* The step is a call of convert_data_types on the object Current.
IsCoercionStep == pass = 3 /\ exc = "" /\ visited' # visited
\* validate_8760 resamples attribute a of object o: a scalar-or-series
\* attribute holding a series of an accepted length other than
\* HoursPerYear * time_steps_per_hour (for time_steps_per_hour other than 1
\* only the wholesale rates are resampled).
ResampleDue(o, a) ==
    LET v == Get(tree, o, a)
        steps == TimeSteps(tree)
    IN /\ tree[o].st = "dict" /\ a \in Range(SchemaAttrs(o))
       /\ AttrDef(o, a).type = "union"
       /\ v.t = "list" /\ v.s = ""
       /\ HasTimeSteps(tree) /\ steps.t = "num" /\ steps.n \in {1, 2, 4}
       /\ Len(v.l) \in length_list /\ Len(v.l) # HoursPerYear * steps.n
       /\ (steps.n = 1 \/ a \in wholesale_rate_names)

\* What a call of convert_data_types on Current may change in the tree.
C30_Body ==
    /\ \A o \in Objects \ {Current} : tree'[o] = tree[o]
    /\ \A a \in Range(SchemaAttrs(Current)) :
           ResampleDue(Current, a) =>
               /\ exc' = ""
               /\ Len(Get(tree', Current, a).l) = HoursPerYear * TimeSteps(tree).n
               /\ \E i \in DOMAIN resampled_inputs' :
                      resampled_inputs'[i].path = <<Current>>

\* C30: when validate_8760 resamples a series it writes the result back to the
\* node the series was read from (the object the calling pass was handed) and
\* modifies no other node, for an object at any depth of the schema.
C30_ResampledWrittenInPlace == [][IsCoercionStep => C30_Body]_vars

====
